---- MODULE Spec2Model ----
(***************************************************************************)
(* A model of arping (src/arping.c): the packet codec (send_pack,          *)
(* recv_pack), the probe session counters, the finisher and the event loop *)
(* multiplexing the signal channel, the interval timer and the raw socket. *)
(***************************************************************************)
EXTENDS Integers, Sequences, FiniteSets, TLC

(***************************************************************************)
(* Bounds of the model.                                                    *)
(***************************************************************************)
\* the cumulative timer expiry total is explored up to this value
MaxTotalExpires == 2
\* accepted responses are explored up to this number
MaxReceived == 2
\* the hardware address length of the local interface (sll_halen), in bytes
HwLen == 2
\* the system has up to this many network interfaces
MaxIfs == 2
\* the monotonic clock is read within this many seconds (tv_sec)
MaxSec == 2
\* in sessions with a probe budget the cumulative timer expiry total is
\* explored up to this value, one more than the largest budget
MaxBudgetExpires == 3

(***************************************************************************)
(* Program constants.                                                      *)
(***************************************************************************)
FINAL_PACKS == 2
ARPHRD_ETHER == 1
ARPHRD_IEEE802 == 6
ARPHRD_FDDI == 774
ETH_P_IP == 2048
ETH_P_IPV6 == 34525
ARPOP_REQUEST == 1
ARPOP_REPLY == 2
ARPOP_RREQUEST == 3
PACKET_HOST == 0
PACKET_BROADCAST == 1
PACKET_MULTICAST == 2
PACKET_OTHERHOST == 3
\* sizeof(struct arphdr): ar_hrd, ar_pro (2 bytes each), ar_hln, ar_pln
\* (1 byte each), ar_op (2 bytes)
SizeofArphdr == 8
\* the length of a protocol (IPv4) address in the frame
IpLen == 4

\* htons() on a little-endian host: the two bytes of a 16-bit value swapped
htons(x) == (x % 256) * 256 + (x \div 256)

(***************************************************************************)
(* Addresses.  A hardware address is a sequence of sll_halen bytes, a      *)
(* protocol address the sequence of the 4 bytes of an in_addr.             *)
(***************************************************************************)
HwAddr(n, b) == [i \in 1..n |-> b]
\* the local interface's hardware address (me.sll_addr)
MeAddr == HwAddr(HwLen, 2)
\* two other stations on the link
PeerA == HwAddr(HwLen, 4)
PeerB == HwAddr(HwLen, 6)
\* the interface's broadcast address (memset(he->sll_addr, -1, ...))
BcastAddr == HwAddr(HwLen, 255)

IpZero == <<0, 0, 0, 0>>
IpSrc == <<192, 0, 2, 1>>
IpDst == <<192, 0, 2, 5>>
IpOther == <<192, 0, 2, 9>>

(***************************************************************************)
(* State.                                                                  *)
(***************************************************************************)
VARIABLES
    ctl,            \* struct run_state: the configuration and the session
    pc,             \* the position of the process in event_loop
    exit_loop,      \* event_loop's exit_loop
    rc,             \* event_loop's rc
    total_expires,  \* event_loop's total_expires
    ret,            \* what the last call of recv_pack returned, NoRet before it
    out,            \* what was printed: report lines and the summary
    status,         \* the value event_loop returned, NoStatus while it runs
    wire,           \* the frame send_pack handed to sendto, as a peer reads it
    peer,           \* the run_state of a peer arping on the same link
    attempts,       \* the number of calls of send_pack so far
    sys,            \* the system main() runs on: the build and the interfaces
    priv            \* the privileges of the process and the calls that set them

vars == <<ctl, pc, exit_loop, rc, total_expires, ret, out, status, wire, peer,
          attempts, sys, priv>>

\* no value yet: event_loop has not returned, recv_pack has not been called
NoStatus == -1
NoRet == -1
NoFrame == "none"
NoPeer == "none"
\* outside main()'s startup: the system and the privileges are not looked at
NoSys == "none"
NoPriv == "none"

(***************************************************************************)
(* The clock.  CLOCK_MONOTONIC_RAW read in seconds: the timer is armed at  *)
(* the interval from the start, so the clock stands at the number of       *)
(* intervals the timer has counted (never 0).                              *)
(***************************************************************************)
Now == total_expires

(***************************************************************************)
(* send_pack: the frame it builds, and its effect on the session.          *)
(***************************************************************************)
\* a faulty frame builder: ar_pro left in host byte order
BuildFrame_ProHostOrder(c) ==
    LET hrd == IF htons(c.me.sll_hatype) = htons(ARPHRD_FDDI)
               THEN htons(ARPHRD_ETHER)
               ELSE htons(c.me.sll_hatype)
        hln == c.me.sll_halen
    IN  [ ar_hrd |-> hrd,
          ar_pro |-> ETH_P_IP,
          ar_hln |-> hln,
          ar_pln |-> IpLen,
          ar_op  |-> IF c.advert THEN htons(ARPOP_REPLY) ELSE htons(ARPOP_REQUEST),
          body   |-> SubSeq(c.me.sll_addr, 1, hln)
                     \o c.gsrc
                     \o (IF c.advert THEN SubSeq(c.me.sll_addr, 1, hln)
                                     ELSE SubSeq(c.he.sll_addr, 1, hln))
                     \o c.gdst ]

\* the ARP frame send_pack writes into buf (header, then p)
BuildFrame(c) ==
    LET hrd == IF htons(c.me.sll_hatype) = htons(ARPHRD_FDDI)
               THEN htons(ARPHRD_ETHER)
               ELSE htons(c.me.sll_hatype)
        hln == c.me.sll_halen
    IN  [ ar_hrd |-> hrd,
          ar_pro |-> htons(ETH_P_IP),
          ar_hln |-> hln,
          ar_pln |-> IpLen,
          ar_op  |-> IF c.advert THEN htons(ARPOP_REPLY) ELSE htons(ARPOP_REQUEST),
          body   |-> SubSeq(c.me.sll_addr, 1, hln)
                     \o c.gsrc
                     \o (IF c.advert THEN SubSeq(c.me.sll_addr, 1, hln)
                                     ELSE SubSeq(c.he.sll_addr, 1, hln))
                     \o c.gdst ]

\* p - buf: the number of bytes of the frame
FrameLen(fr) == SizeofArphdr + Len(fr.body)

\* what sendto may return for a frame of n bytes: an error, a short write, n
SendResults(n) == {-1, n - 1, n}

\* a faulty send_pack: brd_sent counts unicast probes too
send_pack_CountsUnicast(c, err, now) ==
    IF err = FrameLen(BuildFrame(c))
    THEN [c EXCEPT !.last = now,
                   !.sent = @ + 1,
                   !.brd_sent = @ + 1]
    ELSE c

\* the session after send_pack whose sendto returned err at time now
send_pack(c, err, now) ==
    IF err = FrameLen(BuildFrame(c))
    THEN [c EXCEPT !.last = now,
                   !.sent = @ + 1,
                   !.brd_sent = IF ~c.unicasting THEN @ + 1 ELSE @]
    ELSE c

(***************************************************************************)
(* finish: the summary and the mode-specific base exit code.               *)
(***************************************************************************)
\* a faulty finisher: unsolicited mode judged like normal resolution
finish_UnsolicitedAsNormal(c) ==
    [ summary |-> ~c.quiet,
      code    |-> IF c.dad THEN (IF c.received # 0 THEN 1 ELSE 0)
                  ELSE (IF c.received = 0 THEN 1 ELSE 0) ]

finish(c) ==
    [ summary |-> ~c.quiet,
      code    |-> IF c.dad THEN (IF c.received # 0 THEN 1 ELSE 0)
                  ELSE IF c.unsolicited THEN 0
                  ELSE (IF c.received = 0 THEN 1 ELSE 0) ]

(***************************************************************************)
(* recv_pack: validation of a received frame and its effect.               *)
(* A received frame f carries what recvfrom filled in: from (sll_pkttype,  *)
(* sll_hatype), the ARP header, the bytes after it (body) and the length   *)
(* recvfrom returned (len).                                                *)
(***************************************************************************)
\* the fields recv_pack reads at offsets computed from ar_hln
SenderHw(f) == SubSeq(f.body, 1, f.ar_hln)
SenderIp(f) == SubSeq(f.body, f.ar_hln + 1, f.ar_hln + IpLen)
TargetHw(f) == SubSeq(f.body, f.ar_hln + IpLen + 1, f.ar_hln + IpLen + f.ar_hln)
TargetIp(f) == SubSeq(f.body, f.ar_hln + IpLen + f.ar_hln + 1,
                      f.ar_hln + IpLen + f.ar_hln + IpLen)

\* faulty structural checks: the protocol type is not looked at
StructuralChecks_AnyProtocol(c, f) ==
    IF /\ f.sll_pkttype # PACKET_HOST
       /\ f.sll_pkttype # PACKET_BROADCAST
       /\ f.sll_pkttype # PACKET_MULTICAST
    THEN FALSE
    ELSE IF f.ar_op # htons(ARPOP_REQUEST) /\ f.ar_op # htons(ARPOP_REPLY)
    THEN FALSE
    ELSE IF /\ f.ar_hrd # htons(f.sll_hatype)
            /\ (f.sll_hatype # ARPHRD_FDDI \/ f.ar_hrd # htons(ARPHRD_ETHER))
    THEN FALSE
    ELSE IF f.ar_pln # IpLen
    THEN FALSE
    ELSE IF f.ar_hln # c.me.sll_halen
    THEN FALSE
    ELSE IF f.len < SizeofArphdr + 2 * (IpLen + f.ar_hln)
    THEN FALSE
    ELSE TRUE

\* "Filter out wild packets" .. the length check: TRUE when the frame passes
StructuralChecks(c, f) ==
    IF /\ f.sll_pkttype # PACKET_HOST
       /\ f.sll_pkttype # PACKET_BROADCAST
       /\ f.sll_pkttype # PACKET_MULTICAST
    THEN FALSE
    ELSE IF f.ar_op # htons(ARPOP_REQUEST) /\ f.ar_op # htons(ARPOP_REPLY)
    THEN FALSE
    ELSE IF /\ f.ar_hrd # htons(f.sll_hatype)
            /\ (f.sll_hatype # ARPHRD_FDDI \/ f.ar_hrd # htons(ARPHRD_ETHER))
    THEN FALSE
    ELSE IF f.ar_pro # htons(ETH_P_IP)
    THEN FALSE
    ELSE IF f.ar_pln # IpLen
    THEN FALSE
    ELSE IF f.ar_hln # c.me.sll_halen
    THEN FALSE
    ELSE IF f.len < SizeofArphdr + 2 * (IpLen + f.ar_hln)
    THEN FALSE
    ELSE TRUE

\* faulty address checks: DAD mode does not compare the sender hardware
\* address with ours
ModeChecks_DadOwnFrames(c, f) ==
    IF ~c.dad
    THEN IF SenderIp(f) # c.gdst
         THEN FALSE
         ELSE IF c.gsrc # TargetIp(f)
         THEN FALSE
         ELSE IF TargetHw(f) # SubSeq(c.me.sll_addr, 1, f.ar_hln)
         THEN FALSE
         ELSE TRUE
    ELSE IF SenderIp(f) # c.gdst
         THEN FALSE
         ELSE IF c.gsrc # IpZero /\ c.gsrc # TargetIp(f)
         THEN FALSE
         ELSE TRUE

\* the address checks of the mode: TRUE when the frame passes
ModeChecks(c, f) ==
    IF ~c.dad
    THEN IF SenderIp(f) # c.gdst
         THEN FALSE
         ELSE IF c.gsrc # TargetIp(f)
         THEN FALSE
         ELSE IF TargetHw(f) # SubSeq(c.me.sll_addr, 1, f.ar_hln)
         THEN FALSE
         ELSE TRUE
    ELSE IF SenderIp(f) # c.gdst
         THEN FALSE
         ELSE IF SubSeq(f.body, 1, c.me.sll_halen)
                    = SubSeq(c.me.sll_addr, 1, c.me.sll_halen)
         THEN FALSE
         ELSE IF c.gsrc # IpZero /\ c.gsrc # TargetIp(f)
         THEN FALSE
         ELSE TRUE

\* a faulty acceptance: count = 0 with every probe answered does not end
\* the loop
Accept_NoAllAnswered(c, f) ==
    LET lines == IF ~c.quiet THEN 1 ELSE 0
        c1 == [c EXCEPT !.received = @ + 1]
        c2 == [c1 EXCEPT
                 !.brd_recv = IF f.sll_pkttype # PACKET_HOST THEN @ + 1 ELSE @,
                 !.req_recv = IF f.ar_op = htons(ARPOP_REQUEST) THEN @ + 1 ELSE @]
    IN  IF c1.timeout # 0 /\ c1.received = c1.count
        THEN [ctl |-> c1, ret |-> FINAL_PACKS, lines |-> lines]
        ELSE IF c2.quit_on_reply
        THEN [ctl |-> c2, ret |-> FINAL_PACKS, lines |-> lines]
        ELSE IF ~c2.broadcast_only
        THEN [ctl |-> [c2 EXCEPT
                         !.he.sll_addr = SubSeq(f.body, 1, c.me.sll_halen),
                         !.unicasting = TRUE],
              ret |-> 1, lines |-> lines]
        ELSE [ctl |-> c2, ret |-> 1, lines |-> lines]

\* a faulty acceptance: he is set to the frame's target hardware address
Accept_TargetAsHe(c, f) ==
    LET lines == IF ~c.quiet THEN 1 ELSE 0
        c1 == [c EXCEPT !.received = @ + 1]
        c2 == [c1 EXCEPT
                 !.brd_recv = IF f.sll_pkttype # PACKET_HOST THEN @ + 1 ELSE @,
                 !.req_recv = IF f.ar_op = htons(ARPOP_REQUEST) THEN @ + 1 ELSE @]
    IN  IF c1.timeout # 0 /\ c1.received = c1.count
        THEN [ctl |-> c1, ret |-> FINAL_PACKS, lines |-> lines]
        ELSE IF c2.quit_on_reply \/ (c2.count = 0 /\ c2.received = c2.sent)
        THEN [ctl |-> c2, ret |-> FINAL_PACKS, lines |-> lines]
        ELSE IF ~c2.broadcast_only
        THEN [ctl |-> [c2 EXCEPT
                         !.he.sll_addr = TargetHw(f),
                         !.unicasting = TRUE],
              ret |-> 1, lines |-> lines]
        ELSE [ctl |-> c2, ret |-> 1, lines |-> lines]

\* a faulty acceptance: received reaching count does not end the loop
Accept_NoBudgetTest(c, f) ==
    LET lines == IF ~c.quiet THEN 1 ELSE 0
        c1 == [c EXCEPT !.received = @ + 1]
        c2 == [c1 EXCEPT
                 !.brd_recv = IF f.sll_pkttype # PACKET_HOST THEN @ + 1 ELSE @,
                 !.req_recv = IF f.ar_op = htons(ARPOP_REQUEST) THEN @ + 1 ELSE @]
    IN  IF c2.quit_on_reply \/ (c2.count = 0 /\ c2.received = c2.sent)
        THEN [ctl |-> c2, ret |-> FINAL_PACKS, lines |-> lines]
        ELSE IF ~c2.broadcast_only
        THEN [ctl |-> [c2 EXCEPT
                         !.he.sll_addr = SubSeq(f.body, 1, c.me.sll_halen),
                         !.unicasting = TRUE],
              ret |-> 1, lines |-> lines]
        ELSE [ctl |-> c2, ret |-> 1, lines |-> lines]

\* the counters, the termination decision and the switch to unicast
Accept(c, f) ==
    LET lines == IF ~c.quiet THEN 1 ELSE 0
        c1 == [c EXCEPT !.received = @ + 1]
        c2 == [c1 EXCEPT
                 !.brd_recv = IF f.sll_pkttype # PACKET_HOST THEN @ + 1 ELSE @,
                 !.req_recv = IF f.ar_op = htons(ARPOP_REQUEST) THEN @ + 1 ELSE @]
    IN  IF c1.timeout # 0 /\ c1.received = c1.count
        THEN [ctl |-> c1, ret |-> FINAL_PACKS, lines |-> lines]
        ELSE IF c2.quit_on_reply \/ (c2.count = 0 /\ c2.received = c2.sent)
        THEN [ctl |-> c2, ret |-> FINAL_PACKS, lines |-> lines]
        ELSE IF ~c2.broadcast_only
        THEN [ctl |-> [c2 EXCEPT
                         !.he.sll_addr = SubSeq(f.body, 1, c.me.sll_halen),
                         !.unicasting = TRUE],
              ret |-> 1, lines |-> lines]
        ELSE [ctl |-> c2, ret |-> 1, lines |-> lines]

\* recv_pack(ctl, buf, len, FROM): the session after it, its return value
\* and the number of report lines it printed
recv_pack(c, f) ==
    IF ~StructuralChecks(c, f)
    THEN [ctl |-> c, ret |-> 0, lines |-> 0]
    ELSE IF ~ModeChecks(c, f)
    THEN [ctl |-> c, ret |-> 0, lines |-> 0]
    ELSE Accept(c, f)

(***************************************************************************)
(* The frames the raw socket may deliver to a session with configuration   *)
(* c.  The socket is bound to the interface, so from.sll_hatype is the     *)
(* interface's hardware type.                                              *)
(***************************************************************************)
MkFrame(pkttype, hatype, hrd, pro, hln, pln, op, sha, spa, tha, tpa, cut) ==
    [ sll_pkttype |-> pkttype,
      sll_hatype  |-> hatype,
      ar_hrd |-> hrd,
      ar_pro |-> pro,
      ar_hln |-> hln,
      ar_pln |-> pln,
      ar_op  |-> op,
      body   |-> sha \o spa \o tha \o tpa,
      len    |-> SizeofArphdr + Len(sha \o spa \o tha \o tpa) - cut ]

\* the frame a peer with hardware address sha sends about the target to us:
\* sender (sha, gdst), target (me, gsrc); every mode accepts it
BaseFrame(c, pkttype, hrd, pro, hln, pln, op, sha, cut) ==
    MkFrame(pkttype, c.me.sll_hatype, hrd, pro, hln, pln, op,
            sha, c.gdst, HwAddr(hln, 2), c.gsrc, cut)

\* the base frame from PeerA in every accepted packet class and operation,
\* and the base reply from PeerB and from our own hardware address
ClassFrames(c) ==
    { BaseFrame(c, pkttype, htons(c.me.sll_hatype), htons(ETH_P_IP),
                c.me.sll_halen, IpLen, op, PeerA, 0) :
        pkttype \in {PACKET_HOST, PACKET_BROADCAST, PACKET_MULTICAST},
        op \in {htons(ARPOP_REQUEST), htons(ARPOP_REPLY)} }
    \cup
    { BaseFrame(c, PACKET_HOST, htons(c.me.sll_hatype), htons(ETH_P_IP),
                c.me.sll_halen, IpLen, htons(ARPOP_REPLY), sha, 0) :
        sha \in {PeerB, MeAddr} }

\* unicast replies with the sender hardware address (PeerA, ours), the
\* sender protocol address and the target protocol address each right or
\* wrong, and the base reply with another target hardware address
AddressFrames(c) ==
    { MkFrame(PACKET_HOST, c.me.sll_hatype, htons(c.me.sll_hatype),
              htons(ETH_P_IP), c.me.sll_halen, IpLen, htons(ARPOP_REPLY),
              sha, spa, tha, tpa, 0) :
        sha \in {PeerA, MeAddr}, spa \in {c.gdst, IpOther},
        tha \in {MeAddr},        tpa \in {c.gsrc, IpOther} }
    \cup
    { MkFrame(PACKET_HOST, c.me.sll_hatype, htons(c.me.sll_hatype),
              htons(ETH_P_IP), c.me.sll_halen, IpLen, htons(ARPOP_REPLY),
              PeerA, c.gdst, PeerB, c.gsrc, 0) }

\* the base reply from PeerA with one thing changed: the packet class, the
\* operation, the hardware type (another type; Ethernet on FDDI and FDDI on
\* Ethernet), the protocol type, the protocol length, the hardware length
\* (shorter, longer), the frame length
DefectFrames(c) ==
    LET hrd == htons(c.me.sll_hatype)
        pro == htons(ETH_P_IP)
        hln == c.me.sll_halen
        op  == htons(ARPOP_REPLY)
        Base(pkttype, h, pr, hl, pl, o, cut) ==
            BaseFrame(c, pkttype, h, pr, hl, pl, o, HwAddr(hl, 4), cut)
    IN  { Base(PACKET_OTHERHOST, hrd, pro, hln, IpLen, op, 0),
          Base(PACKET_HOST, hrd, pro, hln, IpLen, htons(ARPOP_RREQUEST), 0),
          Base(PACKET_HOST, htons(ARPHRD_IEEE802), pro, hln, IpLen, op, 0),
          Base(PACKET_HOST, htons(ARPHRD_FDDI + ARPHRD_ETHER - c.me.sll_hatype),
               pro, hln, IpLen, op, 0),
          Base(PACKET_HOST, hrd, htons(ETH_P_IPV6), hln, IpLen, op, 0),
          Base(PACKET_HOST, hrd, pro, hln, IpLen + 2, op, 0),
          Base(PACKET_HOST, hrd, pro, hln - 1, IpLen, op, 0),
          Base(PACKET_HOST, hrd, pro, hln + 1, IpLen, op, 0),
          Base(PACKET_HOST, hrd, pro, hln, IpLen, op, 1) }

FramesFor(c) == ClassFrames(c) \cup AddressFrames(c) \cup DefectFrames(c)

\* the link of the probe: an Ethernet interface with our hardware address,
\* the target address, and the source address 0.0.0.0 or a local address
Links ==
    { [ me |-> [sll_hatype |-> ARPHRD_ETHER, sll_halen |-> HwLen,
                sll_addr |-> MeAddr],
        gsrc |-> g, gdst |-> IpDst ] : g \in {IpZero, IpSrc} }

\* the frames of each link, computed once
FramesOnLink == [l \in Links |-> FramesFor(l)]

RxFrames(c) == FramesOnLink[[me |-> c.me, gsrc |-> c.gsrc, gdst |-> c.gdst]]

(***************************************************************************)
(* The state main() hands to event_loop.                                   *)
(***************************************************************************)
\* -c: the default -1, 0, or a positive count
Counts == {-1, 0, 1, 2}
\* -w: 0 (none) or a timeout
Timeouts == {0, 1}
\* the expiry counts one read of the timer may return
Expirations == {1, 2}

\* run_state as main() leaves it for event_loop: he = me with the broadcast
\* address filled in, the session zeroed
RunState(adv, bo, dad, q, qor, uns, cnt, tmo, gsrc, gdst, hat, hln) ==
    [ advert |-> adv, broadcast_only |-> bo, dad |-> dad, quiet |-> q,
      quit_on_reply |-> qor, unicasting |-> FALSE, unsolicited |-> uns,
      count |-> cnt, timeout |-> tmo, gsrc |-> gsrc, gdst |-> gdst,
      me |-> [sll_hatype |-> hat, sll_halen |-> hln, sll_addr |-> HwAddr(hln, 2)],
      he |-> [sll_hatype |-> hat, sll_halen |-> hln, sll_addr |-> HwAddr(hln, 255)],
      last |-> 0, sent |-> 0, brd_sent |-> 0, received |-> 0,
      brd_recv |-> 0, req_recv |-> 0 ]

\* the configurations of the probe on its link: -D sets dad and
\* quit_on_reply; outside DAD mode the source address is not 0.0.0.0
Configs ==
    { c \in { RunState(FALSE, bo, dad, q, qor, uns, cnt, tmo, l.gsrc, l.gdst,
                       l.me.sll_hatype, l.me.sll_halen) :
                bo \in BOOLEAN, dad \in BOOLEAN, q \in BOOLEAN, qor \in BOOLEAN,
                uns \in BOOLEAN, cnt \in Counts, tmo \in Timeouts, l \in Links } :
        /\ c.dad => c.quit_on_reply
        /\ ~c.dad => c.gsrc # IpZero }

Init ==
    /\ ctl \in Configs
    /\ pc = "setup"
    /\ exit_loop = FALSE
    /\ rc = 0
    /\ total_expires = 1
    /\ ret = NoRet
    /\ out = [lines |-> 0, summary |-> FALSE]
    /\ status = NoStatus
    /\ wire = NoFrame
    /\ peer = NoPeer
    /\ attempts = 0
    /\ sys = NoSys
    /\ priv = NoPriv

(***************************************************************************)
(* event_loop.                                                             *)
(***************************************************************************)
RECURSIVE BitOr(_, _)
\* a | b on non-negative integers
BitOr(a, b) ==
    IF a = 0 THEN b
    ELSE IF b = 0 THEN a
    ELSE (IF a % 2 = 1 \/ b % 2 = 1 THEN 1 ELSE 0) + 2 * BitOr(a \div 2, b \div 2)

\* while (!exit_loop): where the process goes at the end of a wake
LoopTest(e) == IF e THEN "exit" ELSE "poll"

\* sigprocmask, signalfd, timerfd_create, clock_gettime or timerfd_settime
\* fails: event_loop returns 1
SetupFailed ==
    /\ pc = "setup"
    /\ pc' = "setup_failed"
    /\ status' = 1
    /\ UNCHANGED <<ctl, exit_loop, rc, total_expires, ret, out, wire, peer,
                   attempts, sys, priv>>

\* the setup succeeds and the first probe is sent before the loop
Setup ==
    /\ pc = "setup"
    /\ \E err \in SendResults(FrameLen(BuildFrame(ctl))) :
           ctl' = send_pack(ctl, err, Now)
    /\ attempts' = attempts + 1
    /\ pc' = "poll"
    /\ UNCHANGED <<exit_loop, rc, total_expires, ret, out, status, wire, peer,
                   sys, priv>>

\* poll returns <= 0 with errno other than EAGAIN
PollFailed ==
    /\ pc = "poll"
    /\ exit_loop' = TRUE
    /\ pc' = LoopTest(TRUE)
    /\ UNCHANGED <<ctl, rc, total_expires, ret, out, status, wire, peer,
                   attempts, sys, priv>>

\* signal numbers; SIGHUP stands for every signal other than the three
\* the loop ends on
SIGHUP == 1
SIGINT == 2
SIGQUIT == 3
SIGTERM == 15
Signals == {SIGHUP, SIGINT, SIGQUIT, SIGTERM}

\* a faulty signal case: every signal read ends the loop
SignalCase_AnySignalEnds(e, full, signo) ==
    IF ~full
    THEN [exit_loop |-> e, reported |-> FALSE]
    ELSE [exit_loop |-> TRUE, reported |-> FALSE]

\* case POLLFD_SIGNAL on a loop flag e: a short read leaves the case; SIGINT,
\* SIGQUIT and SIGTERM set the flag; any other number is printed
SignalCase(e, full, signo) ==
    IF ~full
    THEN [exit_loop |-> e, reported |-> FALSE]
    ELSE IF signo = SIGINT \/ signo = SIGQUIT \/ signo = SIGTERM
    THEN [exit_loop |-> TRUE, reported |-> FALSE]
    ELSE [exit_loop |-> e, reported |-> TRUE]

\* case POLLFD_SIGNAL: the signal channel is readable.  The mask given to
\* signalfd holds SIGINT, SIGQUIT and SIGTERM; the case itself tests the
\* number it read, so the number is an input here
HandleSignal ==
    /\ pc = "poll"
    /\ \E full \in BOOLEAN, signo \in Signals :
           exit_loop' = SignalCase(exit_loop, full, signo).exit_loop
    /\ pc' = "timer"
    /\ UNCHANGED <<ctl, rc, total_expires, ret, out, status, wire, peer,
                   attempts, sys, priv>>

\* pfds[POLLFD_SIGNAL].revents == 0
SkipSignal ==
    /\ pc = "poll"
    /\ pc' = "timer"
    /\ UNCHANGED <<ctl, exit_loop, rc, total_expires, ret, out, status, wire, peer,
                   attempts, sys, priv>>

\* case POLLFD_TIMER, the read of the timer fails
TimerReadFailed ==
    /\ pc = "timer"
    /\ pc' = "socket"
    /\ UNCHANGED <<ctl, exit_loop, rc, total_expires, ret, out, status, wire, peer,
                   attempts, sys, priv>>

\* a faulty timer case: the budget is not checked
TimerCase_NoBudget(limit) ==
    /\ pc = "timer"
    /\ \E exp \in Expirations :
        /\ total_expires + exp <= limit
        /\ total_expires' = total_expires + exp
        /\ exit_loop' = exit_loop
        /\ \E err \in SendResults(FrameLen(BuildFrame(ctl))) :
               ctl' = send_pack(ctl, err, total_expires')
        /\ attempts' = attempts + 1
    /\ pc' = "socket"
    /\ UNCHANGED <<rc, ret, out, status, wire, peer, sys, priv>>

\* a faulty timer case: the budget is checked before the expiries are added
TimerCase_StaleTotal(limit) ==
    /\ pc = "timer"
    /\ \E exp \in Expirations :
        /\ total_expires + exp <= limit
        /\ total_expires' = total_expires + exp
        /\ IF 0 < ctl.count /\ ctl.count < total_expires
           THEN /\ exit_loop' = TRUE
                /\ ctl' = ctl
                /\ attempts' = attempts
           ELSE /\ exit_loop' = exit_loop
                /\ \E err \in SendResults(FrameLen(BuildFrame(ctl))) :
                       ctl' = send_pack(ctl, err, total_expires')
                /\ attempts' = attempts + 1
    /\ pc' = "socket"
    /\ UNCHANGED <<rc, ret, out, status, wire, peer, sys, priv>>

\* case POLLFD_TIMER: exp expiries are read, the total staying within limit;
\* the budget is checked and the next probe sent
TimerCase(limit) ==
    /\ pc = "timer"
    /\ \E exp \in Expirations :
        /\ total_expires + exp <= limit
        /\ total_expires' = total_expires + exp
        /\ IF 0 < ctl.count /\ ctl.count < total_expires'
           THEN /\ exit_loop' = TRUE
                /\ ctl' = ctl
                /\ attempts' = attempts
           ELSE /\ exit_loop' = exit_loop
                /\ \E err \in SendResults(FrameLen(BuildFrame(ctl))) :
                       ctl' = send_pack(ctl, err, total_expires')
                /\ attempts' = attempts + 1
    /\ pc' = "socket"
    /\ UNCHANGED <<rc, ret, out, status, wire, peer, sys, priv>>

HandleTimer == TimerCase(MaxTotalExpires)

\* pfds[POLLFD_TIMER].revents == 0
SkipTimer ==
    /\ pc = "timer"
    /\ pc' = "socket"
    /\ UNCHANGED <<ctl, exit_loop, rc, total_expires, ret, out, status, wire, peer,
                   attempts, sys, priv>>

\* a faulty socket case: a recvfrom failing with ENETDOWN ends the loop
RecvFailed_NetdownEndsLoop ==
    /\ pc = "socket"
    /\ \E netdown \in BOOLEAN :
           /\ rc' = IF netdown THEN 2 ELSE rc
           /\ exit_loop' = IF netdown THEN TRUE ELSE exit_loop
    /\ pc' = LoopTest(exit_loop')
    /\ UNCHANGED <<ctl, total_expires, ret, out, status, wire, peer,
                   attempts, sys, priv>>

\* case POLLFD_SOCKET, recvfrom fails: with ENETDOWN rc becomes 2
RecvFailed ==
    /\ pc = "socket"
    /\ \E netdown \in BOOLEAN :
           rc' = IF netdown THEN 2 ELSE rc
    /\ pc' = LoopTest(exit_loop)
    /\ UNCHANGED <<ctl, exit_loop, total_expires, ret, out, status, wire, peer,
                   attempts, sys, priv>>

\* a faulty socket case: FINAL_PACKS from recv_pack does not end the loop
Receive_IgnoresFinal(f) ==
    /\ pc = "socket"
    /\ LET r == recv_pack(ctl, f)
       IN  /\ r.ctl.received <= MaxReceived
           /\ ctl' = r.ctl
           /\ ret' = r.ret
           /\ out' = [out EXCEPT !.lines = @ + r.lines]
           /\ exit_loop' = exit_loop
           /\ pc' = LoopTest(exit_loop')
    /\ UNCHANGED <<rc, total_expires, status, wire, peer,
                   attempts, sys, priv>>

\* case POLLFD_SOCKET with frame f read by recvfrom: recv_pack handles it
\* and FINAL_PACKS ends the loop
Receive(f) ==
    /\ pc = "socket"
    /\ LET r == recv_pack(ctl, f)
       IN  /\ r.ctl.received <= MaxReceived
           /\ ctl' = r.ctl
           /\ ret' = r.ret
           /\ out' = [out EXCEPT !.lines = @ + r.lines]
           /\ exit_loop' = IF r.ret = FINAL_PACKS THEN TRUE ELSE exit_loop
           /\ pc' = LoopTest(exit_loop')
    /\ UNCHANGED <<rc, total_expires, status, wire, peer,
                   attempts, sys, priv>>

\* case POLLFD_SOCKET: some frame is read
HandleSocket == \E f \in RxFrames(ctl) : Receive(f)

\* pfds[POLLFD_SOCKET].revents == 0
SkipSocket ==
    /\ pc = "socket"
    /\ pc' = LoopTest(exit_loop)
    /\ UNCHANGED <<ctl, exit_loop, rc, total_expires, ret, out, status, wire, peer,
                   attempts, sys, priv>>

\* after the loop: finish() and the two |= on rc
LoopExit ==
    /\ pc = "exit"
    /\ LET fin == finish(ctl)
           rc1 == BitOr(rc, fin.code)
           rc2 == BitOr(rc1, IF ~(ctl.brd_sent # ctl.received) THEN 1 ELSE 0)
       IN  /\ status' = rc2
           /\ rc' = rc2
           /\ out' = [out EXCEPT !.summary = fin.summary]
    /\ pc' = "done"
    /\ UNCHANGED <<ctl, exit_loop, total_expires, ret, wire, peer,
                   attempts, sys, priv>>

Next ==
    \/ SetupFailed
    \/ Setup
    \/ PollFailed
    \/ HandleSignal
    \/ SkipSignal
    \/ TimerReadFailed
    \/ HandleTimer
    \/ SkipTimer
    \/ RecvFailed
    \/ HandleSocket
    \/ SkipSocket
    \/ LoopExit

Spec == Init /\ [][Next]_vars

(***************************************************************************)
(* event_loop of a session with a probe budget (-c with count > 0), with   *)
(* the timer read further so that a single read can pass the budget.       *)
(***************************************************************************)
BudgetInit ==
    /\ ctl \in { c \in Configs : c.count > 0 }
    /\ pc = "setup"
    /\ exit_loop = FALSE
    /\ rc = 0
    /\ total_expires = 1
    /\ ret = NoRet
    /\ out = [lines |-> 0, summary |-> FALSE]
    /\ status = NoStatus
    /\ wire = NoFrame
    /\ peer = NoPeer
    /\ attempts = 0
    /\ sys = NoSys
    /\ priv = NoPriv

BudgetTimer == TimerCase(MaxBudgetExpires)

BudgetNext ==
    \/ SetupFailed
    \/ Setup
    \/ PollFailed
    \/ HandleSignal
    \/ SkipSignal
    \/ TimerReadFailed
    \/ BudgetTimer
    \/ SkipTimer
    \/ RecvFailed
    \/ HandleSocket
    \/ SkipSocket
    \/ LoopExit

SpecBudget == BudgetInit /\ [][BudgetNext]_vars

(***************************************************************************)
(* Vocabulary of the properties.                                           *)
(***************************************************************************)
\* event_loop left its loop, ran finish() and returned status
LoopEnded == pc = "done"

\* a recvfrom failed with ENETDOWN: rc carries the bit 2 from then on
NetDownSeen == (rc \div 2) % 2 = 1

\* the frame passes every structural check, in the words of the frame
\* format: packet class, operation, hardware type (Ethernet stands for FDDI
\* on an FDDI interface), protocol type, protocol length, hardware length,
\* frame length
StructurallyValid(c, f) ==
    /\ f.sll_pkttype \in {PACKET_HOST, PACKET_BROADCAST, PACKET_MULTICAST}
    /\ f.ar_op \in {htons(ARPOP_REQUEST), htons(ARPOP_REPLY)}
    /\ \/ f.ar_hrd = htons(c.me.sll_hatype)
       \/ c.me.sll_hatype = ARPHRD_FDDI /\ f.ar_hrd = htons(ARPHRD_ETHER)
    /\ f.ar_pro = htons(ETH_P_IP)
    /\ f.ar_pln = IpLen
    /\ f.ar_hln = c.me.sll_halen
    /\ f.len >= SizeofArphdr + 2 * f.ar_hln + 2 * IpLen

\* the normal-mode address check: the frame answers the configured query
AnswersQuery(c, f) ==
    /\ SenderIp(f) = c.gdst
    /\ TargetIp(f) = c.gsrc
    /\ TargetHw(f) = c.me.sll_addr

\* the DAD-mode address check: another station uses the address under test
ShowsConflict(c, f) ==
    /\ SenderIp(f) = c.gdst
    /\ SenderHw(f) # c.me.sll_addr
    /\ (c.gsrc = IpZero \/ TargetIp(f) = c.gsrc)

\* the frame fails a structural check or the address check of the mode
Rejected(c, f) ==
    \/ ~StructurallyValid(c, f)
    \/ ~c.dad /\ ~AnswersQuery(c, f)
    \/ c.dad /\ ~ShowsConflict(c, f)

\* the base exit code of the finisher, by mode
BaseCode(c) ==
    IF c.dad THEN (IF c.received > 0 THEN 1 ELSE 0)
    ELSE IF c.unsolicited THEN 0
    ELSE (IF c.received = 0 THEN 1 ELSE 0)

(***************************************************************************)
(* C1.  Exit-code law of DAD mode: a run in DAD mode without a network-    *)
(* down receive error exits 0 when the loop ends with received = 0 and     *)
(* non-zero when it ends with received >= 1, whatever sent and brd_sent.   *)
(* The code violates it: with brd_sent = received = 0 the status is 1.     *)
(***************************************************************************)
C1_DadExitCodeLaw ==
    (LoopEnded /\ ctl.dad /\ ~NetDownSeen) =>
        /\ ctl.received = 0 => status = 0
        /\ ctl.received >= 1 => status # 0

(***************************************************************************)
(* C2.  Normal resolution mode (neither DAD nor unsolicited) without a     *)
(* network-down receive error: the exit status is 0 if and only if at      *)
(* least one response was accepted.  The code violates it: one broadcast   *)
(* probe and one accepted reply give status 1.                             *)
(***************************************************************************)
C2_NormalExitCodeLaw ==
    (LoopEnded /\ ~ctl.dad /\ ~ctl.unsolicited /\ ~NetDownSeen) =>
        (status = 0 <=> ctl.received >= 1)

(***************************************************************************)
(* C3.  Unsolicited mode (not DAD) without a network-down receive error:   *)
(* the exit status is always 0.  The code violates it whenever brd_sent =  *)
(* received at the end of the loop.                                        *)
(***************************************************************************)
C3_UnsolicitedExitsZero ==
    (LoopEnded /\ ~ctl.dad /\ ctl.unsolicited /\ ~NetDownSeen) => status = 0

(***************************************************************************)
(* C4.  When the loop is left, the status returned is the bitwise OR of    *)
(* 2 if a recvfrom failed with network-down, the base code of the finisher *)
(* and 1 if brd_sent = received; it is one of 0, 1, 2, 3.                  *)
(***************************************************************************)
C4_StatusIsOrOfThreeTerms ==
    [][ (pc = "exit" /\ pc' = "done") =>
          /\ rc \in {0, 2}
          /\ status' = (IF rc = 2 THEN 2 ELSE 0)
                       + (IF BaseCode(ctl) = 1 \/ ctl.brd_sent = ctl.received
                          THEN 1 ELSE 0)
          /\ status' \in 0..3 ]_vars

\* a run that saw network-down and ended with status 3
C4_Witness == LoopEnded /\ status = 3 /\ ctl.sent >= 1

\* this step is recv_pack accepting a frame: received grows
AcceptStep == pc = "socket" /\ ctl'.received = ctl.received + 1

\* the loop ends in the wake of this step: the socket is the last source
\* scanned, so the process goes from the handler straight to the loop exit
EndsInThisWake == exit_loop' /\ pc' = "exit"

\* once the loop is left nothing is sent or received any more
NothingAfterExit == pc \in {"exit", "done"} => (ctl' = ctl /\ pc' = "done")

C6_QuitOnFirstReply ==
    [][ /\ ctl.dad => ctl.quit_on_reply
        /\ ctl.quit_on_reply =>
            /\ AcceptStep => (ret' = FINAL_PACKS /\ EndsInThisWake)
            /\ ctl'.received <= 1
            /\ ctl.received >= 1 => (ctl' = ctl /\ pc' = "done")
            /\ ctl.quiet => (out'.lines = 0 /\ ~out'.summary) ]_vars

\* quiet and quit-on-first-reply with a count of 2: ended after the first
\* reply with one probe sent and nothing printed
C6_Witness ==
    /\ LoopEnded /\ ctl.quit_on_reply /\ ctl.quiet /\ ~ctl.dad
    /\ ctl.count = 2 /\ ctl.sent = 1 /\ ctl.received = 1
    /\ out.lines = 0 /\ ~out.summary

\* the process is at the socket handler, where recvfrom hands a frame to
\* recv_pack
AtSocket == pc = "socket"

(***************************************************************************)
(* C7.  As claimed: a structurally valid frame handled in normal mode that *)
(* answers the query increments received by one and, unless broadcast-only *)
(* is set, leaves he at the frame's sender hardware address with           *)
(* unicasting set, for every flag combination.  The code leaves he and     *)
(* unicasting alone when the response ends the loop.                       *)
(***************************************************************************)
C7_AsClaimed ==
    (AtSocket /\ ~ctl.dad) => \A f \in RxFrames(ctl) :
        (StructurallyValid(ctl, f) /\ AnswersQuery(ctl, f)) =>
            LET after == recv_pack(ctl, f).ctl
            IN  /\ after.received = ctl.received + 1
                /\ ~ctl.broadcast_only =>
                     (after.he.sll_addr = SenderHw(f) /\ after.unicasting)

\* the response ends the loop: a timeout is configured and received has
\* reached count, or quit-on-first-reply, or count = 0 and received = sent
EndsLoop(c) ==
    \/ c.timeout # 0 /\ c.received = c.count
    \/ c.quit_on_reply
    \/ c.count = 0 /\ c.received = c.sent

(***************************************************************************)
(* C7, amended.  Such a frame increments received by exactly one; if       *)
(* broadcast-only is not set and the response does not end the loop,       *)
(* afterwards he is the frame's sender hardware address and unicasting is  *)
(* set; if it ends the loop or broadcast-only is set, he and unicasting    *)
(* are unchanged.                                                          *)
(***************************************************************************)
C7_AcceptedResponse ==
    (AtSocket /\ ~ctl.dad) => \A f \in RxFrames(ctl) :
        (StructurallyValid(ctl, f) /\ AnswersQuery(ctl, f)) =>
            LET after == recv_pack(ctl, f).ctl
            IN  /\ after.received = ctl.received + 1
                /\ IF ~ctl.broadcast_only /\ ~EndsLoop(after)
                   THEN after.he.sll_addr = SenderHw(f) /\ after.unicasting
                   ELSE after.he = ctl.he /\ after.unicasting = ctl.unicasting

\* a second response, from PeerB, was accepted in normal mode and moved he
C7_Witness ==
    /\ ~ctl.dad /\ ~ctl.broadcast_only /\ ret = 1
    /\ ctl.received = 2 /\ ctl.unicasting /\ ctl.he.sll_addr = PeerB

(***************************************************************************)
(* C8.  A frame that fails a structural check or the address check of the  *)
(* mode has no effect: recv_pack returns 0, which does not end the loop,   *)
(* the session (sent, brd_sent, received, brd_recv, req_recv, he,          *)
(* unicasting, last) is unchanged and nothing is printed.                  *)
(***************************************************************************)
C8_RejectedFrameNoEffect ==
    AtSocket => \A f \in RxFrames(ctl) :
        Rejected(ctl, f) =>
            LET r == recv_pack(ctl, f)
            IN  /\ r.ret = 0 /\ r.ret # FINAL_PACKS
                /\ r.ctl = ctl
                /\ r.lines = 0

\* a frame was ignored after a response had been accepted, and the loop
\* goes on
C8_Witness ==
    /\ ret = 0 /\ pc = "poll" /\ ~exit_loop /\ ctl.received = 1 /\ ctl.sent = 2

(***************************************************************************)
(* C9.  In DAD mode a structurally valid frame is accepted if and only if  *)
(* its sender protocol address is the address under test, its sender       *)
(* hardware address is not ours, and the source address is zero or equals  *)
(* the frame's target protocol address; a frame carrying our hardware      *)
(* address as sender never changes received, however often it arrives.     *)
(***************************************************************************)
C9_DadAcceptance ==
    (AtSocket /\ ctl.dad) => \A f \in RxFrames(ctl) :
        StructurallyValid(ctl, f) =>
            LET r == recv_pack(ctl, f)
            IN  /\ (r.ret # 0 /\ r.ctl.received = ctl.received + 1)
                      <=> ShowsConflict(ctl, f)
                /\ SenderHw(f) = ctl.me.sll_addr =>
                      (r.ret = 0 /\ r.ctl.received = ctl.received)

\* DAD with a source address: frames were ignored, then a conflict was
\* accepted after the timer had fired
C9_Witness ==
    /\ ctl.dad /\ ctl.gsrc # IpZero /\ ret = FINAL_PACKS
    /\ ctl.received = 1 /\ total_expires = 2

(***************************************************************************)
(* C12.  Probe budget.  With count > 0 the expiry total starts at 1 for    *)
(* the first probe and grows by every expiry count read from the timer     *)
(* (possibly more than 1); the read that makes it exceed count ends the    *)
(* loop without sending, so send_pack is called at most count times and    *)
(* sent is at most count.                                                  *)
(***************************************************************************)
C12_ProbeBudget ==
    ctl.count > 0 =>
        /\ attempts <= ctl.count
        /\ ctl.sent <= attempts
        /\ attempts <= total_expires
        /\ total_expires > ctl.count => exit_loop

\* count = 2: one read of the timer returned 2 expiries, the total went from
\* 1 to 3 and the loop ended with the first probe the only one
C12_Witness ==
    /\ ctl.count = 2 /\ total_expires = 3 /\ attempts = 1 /\ ctl.sent = 1
    /\ exit_loop /\ pc = "done"

(***************************************************************************)
(* C13.  Signal handling.  A SIGINT, SIGQUIT or SIGTERM read from the      *)
(* signal channel sets the loop flag; the timer and socket cases of the    *)
(* same wake still run, the loop is never polled again, and finish runs    *)
(* once, in the step that leaves the loop.  Any other signal number is     *)
(* reported and leaves the loop flag as it was; the signal case changes    *)
(* nothing else of the session.                                            *)
(***************************************************************************)
C13_SignalCase ==
    pc = "poll" =>
        \A signo \in Signals :
            LET r == SignalCase(exit_loop, TRUE, signo)
            IN  IF signo \in {SIGINT, SIGQUIT, SIGTERM}
                THEN r.exit_loop /\ ~r.reported
                ELSE r.exit_loop = exit_loop /\ r.reported

C13_Step ==
    /\ (pc = "poll" /\ pc' = "timer") =>
           UNCHANGED <<ctl, rc, total_expires, ret, out, status, attempts>>
    /\ exit_loop => exit_loop' /\ pc' # "poll"
    /\ (exit_loop /\ pc = "socket") => pc' = "exit"
    /\ pc = "exit" => pc' = "done" /\ out'.summary = finish(ctl).summary
    /\ pc = "done" => UNCHANGED vars
    /\ out'.summary # out.summary => pc = "exit"

C13_SignalHandling == [](C13_SignalCase) /\ [][C13_Step]_vars

\* a terminating signal was read in this wake, after the first probe; the
\* timer case of the wake is still to run
C13_Witness ==
    /\ pc = "timer" /\ exit_loop /\ ctl.sent = 1 /\ attempts = 1
    /\ ~out.summary

\* recv_pack accepted the frame f in the session c
Accepted(c, f) == recv_pack(c, f).ctl.received = c.received + 1

(***************************************************************************)
(* C17.  Receive counters.  Every accepted frame, the one that ends the    *)
(* loop included, adds one to brd_recv if its packet class is not          *)
(* PACKET_HOST and one to req_recv if its operation is a request, so the   *)
(* counters the summary prints are the numbers of such frames; brd_recv    *)
(* and req_recv are at most received.  The code returns FINAL_PACKS for a  *)
(* response that brings received to count under a timeout before it        *)
(* reaches the two increments.                                             *)
(***************************************************************************)
C17_ReceiveCounters ==
    /\ ctl.brd_recv <= ctl.received
    /\ ctl.req_recv <= ctl.received
    /\ AtSocket => \A f \in RxFrames(ctl) :
          Accepted(ctl, f) =>
              LET after == recv_pack(ctl, f).ctl
              IN  /\ after.brd_recv = ctl.brd_recv +
                        (IF f.sll_pkttype # PACKET_HOST THEN 1 ELSE 0)
                  /\ after.req_recv = ctl.req_recv +
                        (IF f.ar_op = htons(ARPOP_REQUEST) THEN 1 ELSE 0)

(***************************************************************************)
(* C18.  The switch from broadcast to unicast.  he is the broadcast        *)
(* address until unicasting is set; once unicasting is set it stays set    *)
(* and no accepted response changes he again, whatever its sender hardware *)
(* address; in broadcast-only mode he is never changed and unicasting is   *)
(* never set.  The code copies the sender address into he on every         *)
(* accepted response that does not end the loop.                           *)
(***************************************************************************)
C18_OneWaySwitch ==
    /\ ~ctl.unicasting => ctl.he.sll_addr = HwAddr(ctl.me.sll_halen, 255)
    /\ ctl.broadcast_only => ~ctl.unicasting
    /\ AtSocket => \A f \in RxFrames(ctl) :
          LET after == recv_pack(ctl, f).ctl
          IN  ctl.unicasting => after.unicasting /\ after.he = ctl.he

(***************************************************************************)
(* C19.  Send counters.  A send_pack whose sendto transmits the whole      *)
(* frame adds one to sent, and one to brd_sent exactly if unicasting is    *)
(* not set; any other send_pack and every other step leave both alone.  So *)
(* 0 <= brd_sent <= sent, brd_sent = sent while unicasting is not set      *)
(* (always in broadcast-only mode), and brd_sent stays fixed once          *)
(* unicasting is set.                                                      *)
(***************************************************************************)
C19_Counters ==
    /\ 0 <= ctl.brd_sent /\ ctl.brd_sent <= ctl.sent
    /\ ~ctl.unicasting => ctl.brd_sent = ctl.sent
    /\ ctl.broadcast_only => ~ctl.unicasting /\ ctl.brd_sent = ctl.sent
    /\ pc \in {"setup", "timer"} =>
          \A err \in SendResults(FrameLen(BuildFrame(ctl))) :
              LET after == send_pack(ctl, err, total_expires)
              IN  IF err = FrameLen(BuildFrame(ctl))
                  THEN /\ after.sent = ctl.sent + 1
                       /\ after.brd_sent =
                            ctl.brd_sent + (IF ctl.unicasting THEN 0 ELSE 1)
                  ELSE after.sent = ctl.sent /\ after.brd_sent = ctl.brd_sent

C19_Step ==
    /\ ctl'.sent \in {ctl.sent, ctl.sent + 1}
    /\ ctl'.sent = ctl.sent + 1 =>
          /\ pc \in {"setup", "timer"}
          /\ ctl'.brd_sent = ctl.brd_sent + (IF ctl.unicasting THEN 0 ELSE 1)
    /\ ctl'.sent = ctl.sent => ctl'.brd_sent = ctl.brd_sent
    /\ ctl.unicasting => ctl'.unicasting /\ ctl'.brd_sent = ctl.brd_sent

C19_SendCounters == [](C19_Counters) /\ [][C19_Step]_vars

\* the second probe went out after the switch to unicast: sent counts it,
\* brd_sent does not
C19_Witness ==
    /\ ctl.unicasting /\ ctl.sent = 2 /\ ctl.brd_sent = 1 /\ attempts = 2

(***************************************************************************)
(* C20.  With a timeout configured and count > 0, the accepted response    *)
(* that brings received to count makes recv_pack return FINAL_PACKS, the   *)
(* loop is left at the end of that wake, and received never exceeds count. *)
(***************************************************************************)
C20_ResponseBudget ==
    (ctl.timeout # 0 /\ ctl.count > 0) =>
        /\ ctl.received <= ctl.count
        /\ ctl.received = ctl.count =>
              /\ ret = FINAL_PACKS
              /\ exit_loop
              /\ pc \in {"exit", "done"}

\* count = 2 with a timeout: the second response ended the loop
C20_Witness ==
    /\ ctl.timeout # 0 /\ ctl.count = 2 /\ ctl.received = 2
    /\ ret = FINAL_PACKS /\ exit_loop /\ pc = "done"

(***************************************************************************)
(* Fair timer: the periodic timer keeps becoming readable and its read     *)
(* succeeds again and again (strong fairness of the timer case, which is   *)
(* enabled once per wake), and the process keeps taking steps.             *)
(***************************************************************************)
SpecBudgetFair ==
    /\ SpecBudget
    /\ WF_vars(BudgetNext)
    /\ SF_vars(BudgetTimer)

(***************************************************************************)
(* C21.  Termination with a finite count.  With count > 0 and a fair       *)
(* timer, a session that entered the event loop leaves it and finish runs  *)
(* (the summary is printed unless quiet), whether or not a frame is ever   *)
(* received and with no signal needed.                                     *)
(***************************************************************************)
C21_CountTermination ==
    /\ (pc = "poll") ~> (pc = "done")
    /\ []((pc = "done" /\ attempts > 0) => out.summary = ~ctl.quiet)

\* count = 2: the loop was left by the budget alone, with nothing received
\* and no probe but the first two
C21_Witness ==
    /\ pc = "done" /\ ctl.count = 2 /\ total_expires = 3 /\ attempts = 2
    /\ ctl.received = 0 /\ ret = NoRet /\ rc = 0

(***************************************************************************)
(* event_loop of a session with a timeout (-w) and no probe budget         *)
(* (count <= 0).  The timer never stops firing here: the expiry total and  *)
(* the send counters are followed up to the edge of the explored range and *)
(* held there, so that a run that probes for ever is a cycle.              *)
(***************************************************************************)
\* sent is followed up to one more than the largest received
SentCap == MaxReceived + 1

Capped(n, cap) == IF n > cap THEN cap ELSE n

TimeoutInit ==
    /\ ctl \in { c \in Configs : c.timeout # 0 /\ c.count <= 0 }
    /\ pc = "setup"
    /\ exit_loop = FALSE
    /\ rc = 0
    /\ total_expires = 1
    /\ ret = NoRet
    /\ out = [lines |-> 0, summary |-> FALSE]
    /\ status = NoStatus
    /\ wire = NoFrame
    /\ peer = NoPeer
    /\ attempts = 0
    /\ sys = NoSys
    /\ priv = NoPriv

\* case POLLFD_TIMER, at every expiry
UnlimitedTimer ==
    /\ pc = "timer"
    /\ \E exp \in Expirations :
        LET total == total_expires + exp
        IN  /\ total_expires' = Capped(total, MaxTotalExpires)
            /\ IF 0 < ctl.count /\ ctl.count < total
               THEN /\ exit_loop' = TRUE
                    /\ ctl' = ctl
                    /\ attempts' = attempts
               ELSE /\ exit_loop' = exit_loop
                    /\ \E err \in SendResults(FrameLen(BuildFrame(ctl))) :
                         LET c == send_pack(ctl, err, total_expires')
                         IN  ctl' = [c EXCEPT !.sent = Capped(@, SentCap),
                                              !.brd_sent = Capped(@, SentCap)]
                    /\ attempts' = Capped(attempts + 1, SentCap)
    /\ pc' = "socket"
    /\ UNCHANGED <<rc, ret, out, status, wire, peer, sys, priv>>

TimeoutNext ==
    \/ SetupFailed
    \/ Setup
    \/ PollFailed
    \/ HandleSignal
    \/ SkipSignal
    \/ TimerReadFailed
    \/ UnlimitedTimer
    \/ SkipTimer
    \/ RecvFailed
    \/ HandleSocket
    \/ SkipSocket
    \/ LoopExit

SpecTimeoutFair ==
    /\ TimeoutInit
    /\ [][TimeoutNext]_vars
    /\ WF_vars(TimeoutNext)
    /\ SF_vars(UnlimitedTimer)

(***************************************************************************)
(* C22.  Termination with a timeout.  With timeout # 0 and count <= 0, a   *)
(* session that entered the event loop leaves it under a fair timer, with  *)
(* no signal needed and even if no response is ever accepted.  The code    *)
(* reads timeout only in recv_pack, against count; the timer case tests    *)
(* the budget alone, so nothing ends such a session.                       *)
(***************************************************************************)
C22_TimeoutTermination == (pc = "poll" /\ ctl.timeout # 0) ~> (pc = "done")

(***************************************************************************)
(* C23.  Transient failures.  A sendto that fails or writes short, and a   *)
(* recvfrom that fails, do not set the loop flag and leave the session     *)
(* (sent, brd_sent, received, brd_recv, req_recv, he, last) as it was; the *)
(* next send_pack comes only with the next timer expiry.                   *)
(***************************************************************************)
C23_FailedSend ==
    pc \in {"setup", "timer"} =>
        \A err \in SendResults(FrameLen(BuildFrame(ctl))) :
            err # FrameLen(BuildFrame(ctl)) =>
                send_pack(ctl, err, total_expires) = ctl

C23_Step ==
    /\ (attempts' = attempts + 1 /\ ctl'.sent = ctl.sent) =>
          /\ ctl' = ctl
          /\ exit_loop' = exit_loop
          /\ pc' \in {"poll", "socket"}
    /\ attempts' # attempts =>
          /\ pc \in {"setup", "timer"}
          /\ pc = "timer" => total_expires' > total_expires
    /\ (pc = "socket" /\ rc' # rc) =>
          /\ ctl' = ctl
          /\ exit_loop' = exit_loop
          /\ pc' = LoopTest(exit_loop)

C23_TransientFailures == [](C23_FailedSend) /\ [][C23_Step]_vars

\* the second probe failed to go out and a recvfrom failed with ENETDOWN;
\* the loop is polling again with the session as the first probe left it
C23_Witness ==
    /\ pc = "poll" /\ ~exit_loop /\ rc = 2
    /\ attempts = 2 /\ ctl.sent = 1 /\ ctl.last = 1 /\ ctl.received = 0

(***************************************************************************)
(* C26.  No probe after cancellation.  Once the loop flag is set (by a     *)
(* SIGINT, SIGQUIT or SIGTERM read from the signal channel, as by any      *)
(* other cause) send_pack is not called again, also when the timer is      *)
(* readable in the wake that read the signal.  The code goes on to the     *)
(* timer case of that wake, which does not look at the flag.               *)
(***************************************************************************)
C26_Step == exit_loop => attempts' = attempts

C26_NoProbeAfterCancel == [][C26_Step]_vars

(***************************************************************************)
(* The codec on its own: one arping (ctl) transmits the frame send_pack    *)
(* builds, and a peer arping in normal mode with the mirrored              *)
(* configuration (its target is our source, its source our target, the     *)
(* same hardware type and length) hands it to recv_pack.                   *)
(***************************************************************************)
\* the hardware types of the link, FDDI and a type without special handling
HaTypes == {ARPHRD_ETHER, ARPHRD_FDDI, ARPHRD_IEEE802}

\* the session once a response from the station at addr has been accepted:
\* he is the learned unicast address
Unicasting(c, addr) ==
    [c EXCEPT !.he.sll_addr = addr, !.unicasting = TRUE,
              !.last = 1, !.sent = 1, !.brd_sent = 1, !.received = 1]

\* the senders: request (and, with -A, reply) frames for every source and
\* destination address, hardware type and length, still broadcasting or
\* unicasting to the peer (bytes 4) or to another station (bytes 6)
Senders ==
    LET fresh == { RunState(adv, FALSE, FALSE, FALSE, FALSE, adv, -1, 0,
                            S, D, hat, hln) :
                     adv \in BOOLEAN, S \in {IpZero, IpSrc, IpOther},
                     D \in {IpDst, IpOther}, hat \in HaTypes,
                     hln \in 1..HwLen }
    IN  fresh \cup { Unicasting(c, HwAddr(c.me.sll_halen, b)) :
                       c \in fresh, b \in {4, 6} }

\* the peers mirroring sender c: normal mode, hardware address of bytes 4
Mirrors(c) ==
    { [ RunState(FALSE, bo, FALSE, FALSE, qor, FALSE, cnt, 0, c.gdst, c.gsrc,
                 c.me.sll_hatype, c.me.sll_halen)
          EXCEPT !.me.sll_addr = HwAddr(c.me.sll_halen, 4) ] :
        bo \in BOOLEAN, qor \in BOOLEAN, cnt \in {-1, 1} }

\* the frame as recvfrom gives it to the station r: the link classifies it
\* by its destination address dst, and from carries r's hardware type
Deliver(fr, dst, r) ==
    [ sll_pkttype |-> IF dst = HwAddr(r.me.sll_halen, 255) THEN PACKET_BROADCAST
                      ELSE IF dst = r.me.sll_addr THEN PACKET_HOST
                      ELSE PACKET_OTHERHOST,
      sll_hatype |-> r.me.sll_hatype,
      ar_hrd |-> fr.ar_hrd, ar_pro |-> fr.ar_pro, ar_hln |-> fr.ar_hln,
      ar_pln |-> fr.ar_pln, ar_op |-> fr.ar_op,
      body |-> fr.body,
      len |-> FrameLen(fr) ]

CodecInit ==
    /\ ctl \in Senders
    /\ peer \in Mirrors(ctl)
    /\ wire = NoFrame
    /\ pc = "send"
    /\ exit_loop = FALSE
    /\ rc = 0
    /\ total_expires = 1
    /\ ret = NoRet
    /\ out = [lines |-> 0, summary |-> FALSE]
    /\ status = NoStatus
    /\ attempts = 0
    /\ sys = NoSys
    /\ priv = NoPriv

\* send_pack: the frame goes out when sendto takes all of it
CodecSend ==
    /\ pc = "send"
    /\ \E err \in SendResults(FrameLen(BuildFrame(ctl))) :
        /\ ctl' = send_pack(ctl, err, Now)
        /\ IF err = FrameLen(BuildFrame(ctl))
           THEN /\ wire' = Deliver(BuildFrame(ctl), ctl.he.sll_addr, peer)
                /\ pc' = "wire"
           ELSE /\ wire' = wire
                /\ pc' = "lost"
    /\ attempts' = attempts + 1
    /\ UNCHANGED <<exit_loop, rc, total_expires, ret, out, status, peer, sys, priv>>

\* the peer's recv_pack on the frame
CodecReceive ==
    /\ pc = "wire"
    /\ LET r == recv_pack(peer, wire)
       IN  /\ peer' = r.ctl
           /\ ret' = r.ret
    /\ pc' = "decoded"
    /\ UNCHANGED <<ctl, exit_loop, rc, total_expires, out, status, wire,
                   attempts, sys, priv>>

CodecNext ==
    \/ CodecSend
    \/ CodecReceive

SpecCodec == CodecInit /\ [][CodecNext]_vars

\* the peer has handled a request frame of ours
RequestDecoded == pc = "decoded" /\ ~ctl.advert

(***************************************************************************)
(* C10.  As claimed: for every source and destination address, hardware    *)
(* length and destination link address (broadcast or learned unicast), the *)
(* request frame send_pack produces is accepted by the peer with the       *)
(* mirrored normal-mode configuration.  The peer rejects the frame when    *)
(* its target hardware address, our he, is not the peer's own address.     *)
(***************************************************************************)
C10_AsClaimed ==
    /\ RequestDecoded
    /\ ctl.he.sll_addr \in {HwAddr(ctl.me.sll_halen, 255), peer.me.sll_addr}
    => ret # 0

(***************************************************************************)
(* C10, amended.  The request frame send_pack produces is accepted by the  *)
(* mirrored normal-mode peer if and only if our destination link address   *)
(* is the peer's own hardware address (the unicast address learned from    *)
(* that peer), for every source and destination address, hardware type and *)
(* hardware length; a request sent to the broadcast address is ignored.    *)
(***************************************************************************)
C10_RoundTrip ==
    RequestDecoded =>
        /\ ret # 0 <=> ctl.he.sll_addr = peer.me.sll_addr
        /\ ret # 0 => peer.received = 1

\* a request unicast to the peer on an FDDI link was accepted
C10_Witness ==
    /\ RequestDecoded /\ ret # 0 /\ ctl.unicasting
    /\ ctl.me.sll_hatype = ARPHRD_FDDI /\ ctl.me.sll_halen = HwLen
    /\ wire.ar_hrd = htons(ARPHRD_ETHER)

(***************************************************************************)
(* main(): the device resolver.  An interface of the system is a record of *)
(* its name, index, flags, hardware address length, whether it has a       *)
(* broadcast address and whether it has an IPv4 address.                   *)
(***************************************************************************)
\* no device name: ctl.device.name == NULL
NULL == "NULL"
\* no exit: the function returned to its caller
NoExit == -1

\* the names of the interfaces, by position in the system's list
IfNames == <<"eth0", "eth1", "eth2", "eth3">>

\* the kinds of interface: up and running, up without carrier, down,
\* no-ARP, loopback, and up without a hardware address
IfKinds ==
    { [flags |-> {"IFF_UP", "IFF_RUNNING"}, halen |-> HwLen, broadaddr |-> TRUE,
       inet |-> TRUE],
      [flags |-> {"IFF_UP"}, halen |-> HwLen, broadaddr |-> TRUE, inet |-> FALSE],
      [flags |-> {"IFF_RUNNING"}, halen |-> HwLen, broadaddr |-> TRUE,
       inet |-> FALSE],
      [flags |-> {"IFF_UP", "IFF_RUNNING", "IFF_NOARP"}, halen |-> HwLen,
       broadaddr |-> TRUE, inet |-> TRUE],
      [flags |-> {"IFF_UP", "IFF_RUNNING", "IFF_LOOPBACK"}, halen |-> HwLen,
       broadaddr |-> TRUE, inet |-> TRUE],
      [flags |-> {"IFF_UP", "IFF_RUNNING"}, halen |-> 0, broadaddr |-> FALSE,
       inet |-> TRUE] }

\* the interface of kind k at position i of the system's list
Interface(k, i) ==
    [name |-> IfNames[i], ifindex |-> i, flags |-> k.flags, halen |-> k.halen,
     broadaddr |-> k.broadaddr, inet |-> k.inet]

\* no interface: a zeroed record (ctl->device.ifa NULL, *ctl->device.sysfs
\* after memset)
NoIf ==
    [name |-> NULL, ifindex |-> 0, flags |-> {}, halen |-> 0,
     broadaddr |-> FALSE, inet |-> FALSE]

\* the lists of up to MaxIfs interfaces
IfLists ==
    UNION { { [i \in 1..n |-> Interface(ks[i], i)] : ks \in [1..n -> IfKinds] } :
            n \in 0..MaxIfs }

\* what the system calls of the resolver do: each strategy works or fails at
\* one of its calls
Faults ==
    [ ifaddrs : {"ok", "getifaddrs", "if_nametoindex"},
      sysfs   : {"ok", "strdup"},
      ioctl   : {"ok", "socket", "SIOCGIFFLAGS", "SIOCGIFINDEX", "SIOCGIFCONF"} ]

\* a faulty flag check: a named interface that is not ARPable is fatal with
\* status 2 in DAD mode too
check_ifflags_IgnoresDad(c, ifflags) ==
    IF "IFF_UP" \notin ifflags
    THEN IF c.device.name # NULL
         THEN [ret |-> -1, exit |-> 2]
         ELSE [ret |-> -1, exit |-> NoExit]
    ELSE IF ifflags \cap {"IFF_NOARP", "IFF_LOOPBACK"} # {}
    THEN IF c.device.name # NULL
         THEN [ret |-> -1, exit |-> 2]
         ELSE [ret |-> -1, exit |-> NoExit]
    ELSE [ret |-> 0, exit |-> NoExit]

\* check_ifflags(ctl, ifflags): 0 or -1, or the status it exits with
check_ifflags(c, ifflags) ==
    IF "IFF_UP" \notin ifflags
    THEN IF c.device.name # NULL
         THEN [ret |-> -1, exit |-> 2]
         ELSE [ret |-> -1, exit |-> NoExit]
    ELSE IF ifflags \cap {"IFF_NOARP", "IFF_LOOPBACK"} # {}
    THEN IF c.device.name # NULL
         THEN [ret |-> -1, exit |-> IF c.dad THEN 0 ELSE 2]
         ELSE [ret |-> -1, exit |-> NoExit]
    ELSE [ret |-> 0, exit |-> NoExit]

\* what a strategy hands back: its return value, ctl->device after it, and
\* the status the process exited with inside it (NoExit if it returned)
Resolved(r, dev, exit) == [rc |-> r, device |-> dev, exit |-> exit]

RECURSIVE IfaddrsList(_, _)
\* the list getifaddrs returns: per interface its AF_PACKET entry and, if it
\* has an IPv4 address, an AF_INET entry
IfaddrsList(ifs, i) ==
    IF i > Len(ifs) THEN <<>>
    ELSE <<[family |-> "AF_PACKET", if |-> ifs[i]]>>
         \o (IF ifs[i].inet THEN <<[family |-> "AF_INET", if |-> ifs[i]]>>
                            ELSE <<>>)
         \o IfaddrsList(ifs, i + 1)

RECURSIVE ScanIfaddrs(_, _, _, _, _)
\* the for loop of find_device_by_ifaddrs from entry i on, with n candidates
\* counted and ifa the last one recorded
ScanIfaddrs(c, l, i, n, ifa) ==
    IF i > Len(l) THEN [n |-> n, ifa |-> ifa, exit |-> NoExit]
    ELSE LET e == l[i]
             ck == check_ifflags(c, e.if.flags)
         IN  IF e.family # "AF_PACKET"
             THEN ScanIfaddrs(c, l, i + 1, n, ifa)
             ELSE IF c.device.name # NULL /\ e.if.name # c.device.name
             THEN ScanIfaddrs(c, l, i + 1, n, ifa)
             ELSE IF ck.exit # NoExit
             THEN [n |-> n, ifa |-> ifa, exit |-> ck.exit]
             ELSE IF ck.ret < 0
             THEN ScanIfaddrs(c, l, i + 1, n, ifa)
             ELSE IF e.if.halen = 0
             THEN ScanIfaddrs(c, l, i + 1, n, ifa)
             ELSE IF ~e.if.broadaddr
             THEN ScanIfaddrs(c, l, i + 1, n, ifa)
             ELSE IF n # 0
             THEN [n |-> n + 1, ifa |-> e.if, exit |-> NoExit]
             ELSE ScanIfaddrs(c, l, i + 1, n + 1, e.if)

\* find_device_by_ifaddrs(ctl) on the interfaces ifs
find_device_by_ifaddrs(c, ifs, f) ==
    IF f.ifaddrs = "getifaddrs"
    THEN Resolved(-1, c.device, NoExit)
    ELSE LET s == ScanIfaddrs(c, IfaddrsList(ifs, 1), 1, 0, NoIf)
         IN  IF s.exit # NoExit
             THEN Resolved(-1, c.device, s.exit)
             ELSE IF s.n = 1 /\ s.ifa # NoIf
             THEN IF f.ifaddrs = "if_nametoindex"
                  THEN Resolved(-1, [c.device EXCEPT !.ifindex = 0], NoExit)
                  ELSE Resolved(0, [name |-> s.ifa.name, ifindex |-> s.ifa.ifindex],
                                NoExit)
             ELSE Resolved(1, c.device, NoExit)

RECURSIVE ScanSysfs(_, _, _, _, _, _)
\* the readdir loop of find_device_by_sysfs from entry i on, with n
\* candidates counted and dev the candidate in ctl->device.sysfs
ScanSysfs(c, ifs, f, i, n, dev) ==
    IF i > Len(ifs) THEN [n |-> n, dev |-> dev, exit |-> NoExit, out |-> FALSE]
    ELSE LET e == ifs[i]
             ck == check_ifflags(c, e.flags)
         IN  IF c.device.name # NULL /\ e.name # c.device.name
             THEN ScanSysfs(c, ifs, f, i + 1, n, dev)
             ELSE IF ck.exit # NoExit
             THEN [n |-> n, dev |-> dev, exit |-> ck.exit, out |-> FALSE]
             ELSE IF ck.ret < 0
             THEN ScanSysfs(c, ifs, f, i + 1, n, dev)
             ELSE IF e.halen = 0
             THEN ScanSysfs(c, ifs, f, i + 1, n, dev)
             ELSE IF dev.ifindex # 0 /\ "IFF_RUNNING" \in dev.flags
             THEN ScanSysfs(c, ifs, f, i + 1, n, dev)
             ELSE IF f.sysfs = "strdup"
             THEN [n |-> n, dev |-> dev, exit |-> NoExit, out |-> TRUE]
             ELSE IF n # 0
             THEN [n |-> n + 1, dev |-> e, exit |-> NoExit, out |-> FALSE]
             ELSE ScanSysfs(c, ifs, f, i + 1, n + 1, e)

\* find_device_by_sysfs(ctl): without USE_SYSFS it returns -1
find_device_by_sysfs(c, ifs, f, use_sysfs) ==
    IF ~use_sysfs
    THEN Resolved(-1, c.device, NoExit)
    ELSE LET s == ScanSysfs(c, ifs, f, 1, 0, NoIf)
             dev == IF s.n = 1
                    THEN [name |-> s.dev.name, ifindex |-> s.dev.ifindex]
                    ELSE c.device
         IN  IF s.exit # NoExit
             THEN Resolved(-1, c.device, s.exit)
             ELSE IF s.out
             THEN Resolved(-1, c.device, NoExit)
             ELSE Resolved(IF dev.ifindex = 0 THEN 1 ELSE 0, dev, NoExit)

\* the interfaces of ifs with the name nm (ioctl looks an interface up by
\* ifr_name)
Named(ifs, nm) == { i \in 1..Len(ifs) : ifs[i].name = nm }

\* check_device_by_ioctl(ctl, s, ifr) with ifr->ifr_name = nm: its return
\* value, the ifr_ifindex it leaves, and the exit status of check_ifflags
check_device_by_ioctl(c, ifs, f, nm, ifindex) ==
    IF f.ioctl = "SIOCGIFFLAGS" \/ Named(ifs, nm) = {}
    THEN [ret |-> -1, ifindex |-> ifindex, exit |-> NoExit]
    ELSE LET e == ifs[CHOOSE i \in Named(ifs, nm) : TRUE]
             ck == check_ifflags(c, e.flags)
         IN  IF ck.exit # NoExit
             THEN [ret |-> 1, ifindex |-> ifindex, exit |-> ck.exit]
             ELSE IF ck.ret < 0
             THEN [ret |-> 1, ifindex |-> ifindex, exit |-> NoExit]
             ELSE IF f.ioctl = "SIOCGIFINDEX"
             THEN [ret |-> -1, ifindex |-> ifindex, exit |-> NoExit]
             ELSE [ret |-> 0, ifindex |-> e.ifindex, exit |-> NoExit]

RECURSIVE ScanIfconf(_, _, _, _, _, _, _)
\* the for loop of find_device_by_ioctl over the SIOCGIFCONF entries from i
\* on: every pass checks ifrbuf (named nm), then copies the entry's name
ScanIfconf(c, ifs, f, i, n, nm, ifindex) ==
    IF i > Len(ifs) THEN [n |-> n, name |-> nm, ifindex |-> ifindex, exit |-> NoExit]
    ELSE IF ~ifs[i].inet
    THEN ScanIfconf(c, ifs, f, i + 1, n, nm, ifindex)
    ELSE LET ck == check_device_by_ioctl(c, ifs, f, nm, ifindex)
         IN  IF ck.exit # NoExit
             THEN [n |-> n, name |-> nm, ifindex |-> ifindex, exit |-> ck.exit]
             ELSE IF ck.ret # 0
             THEN ScanIfconf(c, ifs, f, i + 1, n, nm, ifindex)
             ELSE IF n # 0
             THEN [n |-> n + 1, name |-> ifs[i].name, ifindex |-> ck.ifindex,
                   exit |-> NoExit]
             ELSE ScanIfconf(c, ifs, f, i + 1, n + 1, ifs[i].name, ck.ifindex)

\* find_device_by_ioctl(ctl): ifrbuf starts zeroed, its name empty
find_device_by_ioctl(c, ifs, f) ==
    IF f.ioctl = "socket"
    THEN Resolved(-1, c.device, NoExit)
    ELSE IF c.device.name # NULL
    THEN LET ck == check_device_by_ioctl(c, ifs, f, c.device.name, 0)
         IN  IF ck.exit # NoExit
             THEN Resolved(-1, c.device, ck.exit)
             ELSE IF ck.ret # 0
             THEN Resolved(-1, c.device, NoExit)
             ELSE Resolved(IF ck.ifindex = 0 THEN 1 ELSE 0,
                           [name |-> c.device.name, ifindex |-> ck.ifindex], NoExit)
    ELSE IF f.ioctl = "SIOCGIFCONF"
    THEN Resolved(-1, c.device, NoExit)
    ELSE LET s == ScanIfconf(c, ifs, f, 1, 0, "", 0)
             dev == IF s.n = 1 THEN [name |-> s.name, ifindex |-> s.ifindex]
                               ELSE c.device
         IN  IF s.exit # NoExit
             THEN Resolved(-1, c.device, s.exit)
             ELSE Resolved(IF dev.ifindex = 0 THEN 1 ELSE 0, dev, NoExit)

\* a faulty chain: a strategy that returned 0 is followed by the next one
find_device_FallsThroughOnZero(c, ifs, f, use_sysfs) ==
    LET a == find_device_by_ifaddrs(c, ifs, f)
        ca == [c EXCEPT !.device = a.device]
        b == find_device_by_sysfs(ca, ifs, f, use_sysfs)
        cb == [c EXCEPT !.device = b.device]
        d == find_device_by_ioctl(cb, ifs, f)
        ta == <<[by |-> "ifaddrs", rc |-> a.rc]>>
        tb == ta \o <<[by |-> "sysfs", rc |-> b.rc]>>
        td == tb \o <<[by |-> "ioctl", rc |-> d.rc]>>
    IN  IF a.exit # NoExit \/ a.rc > 0
        THEN [rc |-> a.rc, device |-> a.device, exit |-> a.exit, tried |-> ta]
        ELSE IF b.exit # NoExit \/ b.rc > 0
        THEN [rc |-> b.rc, device |-> b.device, exit |-> b.exit, tried |-> tb]
        ELSE [rc |-> d.rc, device |-> d.device, exit |-> d.exit, tried |-> td]

\* find_device(ctl): the result of the chain and the strategies it called,
\* each with what it returned
find_device(c, ifs, f, use_sysfs) ==
    LET a == find_device_by_ifaddrs(c, ifs, f)
        ca == [c EXCEPT !.device = a.device]
        b == find_device_by_sysfs(ca, ifs, f, use_sysfs)
        cb == [c EXCEPT !.device = b.device]
        d == find_device_by_ioctl(cb, ifs, f)
        ta == <<[by |-> "ifaddrs", rc |-> a.rc]>>
        tb == ta \o <<[by |-> "sysfs", rc |-> b.rc]>>
        td == tb \o <<[by |-> "ioctl", rc |-> d.rc]>>
    IN  IF a.exit # NoExit \/ a.rc >= 0
        THEN [rc |-> a.rc, device |-> a.device, exit |-> a.exit, tried |-> ta]
        ELSE IF b.exit # NoExit \/ b.rc >= 0
        THEN [rc |-> b.rc, device |-> b.device, exit |-> b.exit, tried |-> tb]
        ELSE [rc |-> d.rc, device |-> d.device, exit |-> d.exit, tried |-> td]

\* main() after find_device returned r: the status it exits with, NoExit if
\* it goes on with the device found
device_checks(r) ==
    IF r.exit # NoExit THEN r.exit
    ELSE IF r.rc < 0 THEN 2
    ELSE IF r.device.ifindex = 0 THEN 2
    ELSE NoExit

(***************************************************************************)
(* main(): privileges.  With HAVE_LIBCAP the privilege is the CAP_NET_RAW  *)
(* capability (permitted, effective); without it, the effective user id of *)
(* a set-uid binary.  The invoking user is not root.                       *)
(***************************************************************************)
\* exit(-1) as the parent sees it
ExitMinusOne == 255

\* the process may open a raw socket
RawEffective(sy, p) == IF sy.libcap THEN p.effective ELSE p.euid = "root"

\* how the calls of limit_capabilities, modify_capability_raw and
\* drop_capabilities may end: all succeed, or the named call fails
LimitOutcomes(sy) ==
    IF sy.libcap
    THEN {"ok", "cap_get_proc", "cap_clear", "cap_set_proc", "EPERM", "prctl",
          "setuid"}
    ELSE {"ok"}
ModifyOutcomes(sy) ==
    IF sy.libcap THEN {"ok", "cap_get_proc", "cap_set_proc"} ELSE {"ok", "setuid"}
DropOutcomes(sy) ==
    IF sy.libcap THEN {"ok", "cap_init", "cap_set_proc"} ELSE {"ok", "setuid"}

\* limit_capabilities(ctl) ending as o: ctl and the privileges after it, and
\* the status it exits with
limit_capabilities(sy, c, p, o) ==
    IF ~sy.libcap
    THEN [ctl |-> [c EXCEPT !.euid = p.euid], priv |-> p, exit |-> NoExit]
    ELSE LET cap_raw == IF p.permitted THEN "CAP_SET" ELSE "CAP_CLEAR"
             c1 == [c EXCEPT !.cap_raw = cap_raw]
             \* cap_set_proc with only the permitted flag of CAP_NET_RAW
             p1 == IF cap_raw # "CAP_CLEAR" /\ o # "EPERM"
                   THEN [p EXCEPT !.effective = FALSE]
                   ELSE p
             \* setuid(getuid()): leaving uid 0 clears the effective set
             p2 == [p1 EXCEPT !.euid = "user",
                              !.effective = IF p1.euid = "root" THEN FALSE ELSE @]
         IN  IF o = "cap_get_proc"
             THEN [ctl |-> c, priv |-> p, exit |-> ExitMinusOne]
             ELSE IF cap_raw # "CAP_CLEAR" /\ o \in {"cap_clear", "cap_set_proc"}
             THEN [ctl |-> c1, priv |-> p, exit |-> ExitMinusOne]
             ELSE IF o \in {"prctl", "setuid"}
             THEN [ctl |-> c1, priv |-> p1, exit |-> ExitMinusOne]
             ELSE [ctl |-> c1, priv |-> p2, exit |-> NoExit]

\* modify_capability_raw(ctl, on) ending as o: the privileges after it and
\* its return value
modify_capability_raw(sy, c, p, on, o) ==
    IF sy.libcap
    THEN IF c.cap_raw # "CAP_SET"
         THEN [priv |-> p, ret |-> IF on THEN -1 ELSE 0]
         ELSE IF o # "ok"
         THEN [priv |-> p, ret |-> -1]
         ELSE [priv |-> [p EXCEPT !.effective = on], ret |-> 0]
    ELSE LET uid == IF on THEN c.euid ELSE "user"
         IN  IF o # "ok" \/ (p.euid = "user" /\ uid = "root")
             THEN [priv |-> p, ret |-> -1]
             ELSE [priv |-> [p EXCEPT !.euid = uid], ret |-> 0]

\* a faulty drop_capabilities: a failing call is reported, and it returns
drop_capabilities_Returns(sy, p, o) ==
    IF o # "ok"
    THEN [priv |-> p, exit |-> NoExit]
    ELSE IF sy.libcap
    THEN [priv |-> [p EXCEPT !.permitted = FALSE, !.effective = FALSE],
          exit |-> NoExit]
    ELSE [priv |-> [p EXCEPT !.euid = "user"], exit |-> NoExit]

\* drop_capabilities() ending as o
drop_capabilities(sy, p, o) ==
    IF o # "ok"
    THEN [priv |-> p, exit |-> ExitMinusOne]
    ELSE IF sy.libcap
    THEN [priv |-> [p EXCEPT !.permitted = FALSE, !.effective = FALSE],
          exit |-> NoExit]
    ELSE [priv |-> [p EXCEPT !.euid = "user"], exit |-> NoExit]

\* enable_capability_raw, disable_capability_raw: the privileges after the
\* call, with the record of the calls made (raised: enabled and not yet
\* disabled; failed: a call returned -1)
CapabilityRaw(sy, c, p, on, o) ==
    LET r == modify_capability_raw(sy, c, p, on, o)
    IN  [r.priv EXCEPT !.raised = on,
                       !.failed = IF r.ret < 0 THEN TRUE ELSE @]

(***************************************************************************)
(* main() up to event_loop.                                                *)
(***************************************************************************)
\* the builds: with or without HAVE_LIBCAP and USE_SYSFS
Builds == [libcap : BOOLEAN, sysfs : BOOLEAN]

\* the privileges the process starts with: none, a permitted or effective
\* file capability, or a set-uid root binary
StartPrivileges(sy) ==
    LET P(pe, ef, eu) ==
            [permitted |-> pe, effective |-> ef, euid |-> eu,
             raised |-> FALSE, drops |-> 0, failed |-> FALSE]
    IN  IF sy.libcap
        THEN {P(FALSE, FALSE, "user"), P(TRUE, FALSE, "user"),
              P(TRUE, TRUE, "user"), P(TRUE, TRUE, "root")}
        ELSE {P(FALSE, FALSE, "user"), P(FALSE, FALSE, "root")}

\* ctl as main() initialises it, with what the model records of the raw
\* socket: its descriptor and whether it has been bound to the device
StartCtl ==
    [dad |-> FALSE, source |-> FALSE, device |-> [name |-> NULL, ifindex |-> 0],
     cap_raw |-> "CAP_CLEAR", euid |-> "user", socketfd |-> -1,
     socket_bound |-> FALSE]

StartupInit ==
    /\ sys \in Builds
    /\ priv \in StartPrivileges(sys)
    /\ ctl = StartCtl
    /\ pc = "limit_capabilities"
    /\ status = NoStatus
    /\ attempts = 0
    /\ exit_loop = FALSE
    /\ rc = 0
    /\ total_expires = 1
    /\ ret = NoRet
    /\ out = [lines |-> 0, summary |-> FALSE]
    /\ wire = NoFrame
    /\ peer = NoPeer

\* the process goes on at position p, or has exited with status x
Proceed(x, p) ==
    IF x = NoExit
    THEN pc' = p /\ status' = status
    ELSE pc' = "exited" /\ status' = x

\* main: limit_capabilities(&ctl)
LimitCapabilities ==
    /\ pc = "limit_capabilities"
    /\ \E o \in LimitOutcomes(sys) :
        LET r == limit_capabilities(sys, ctl, priv, o)
        IN  /\ ctl' = r.ctl
            /\ priv' = r.priv
            /\ Proceed(r.exit, "enable_raw")
    /\ UNCHANGED <<exit_loop, rc, total_expires, ret, out, wire, peer, attempts, sys>>

\* main: enable_capability_raw(&ctl) before the raw socket is opened
EnableForSocket ==
    /\ pc = "enable_raw"
    /\ \E o \in ModifyOutcomes(sys) : priv' = CapabilityRaw(sys, ctl, priv, TRUE, o)
    /\ pc' = "socket"
    /\ UNCHANGED <<ctl, exit_loop, rc, total_expires, ret, out, status, wire, peer,
                   attempts, sys>>

\* main: ctl.socketfd = socket(PF_PACKET, SOCK_DGRAM, 0)
OpenRawSocket ==
    /\ pc = "socket"
    /\ \E ok \in BOOLEAN :
        ctl' = [ctl EXCEPT !.socketfd = IF ok /\ RawEffective(sys, priv)
                                        THEN 3 ELSE -1]
    /\ pc' = "disable_raw"
    /\ UNCHANGED <<exit_loop, rc, total_expires, ret, out, status, wire, peer,
                   attempts, sys, priv>>

\* main: disable_capability_raw(&ctl) after the raw socket is opened
DisableAfterSocket ==
    /\ pc = "disable_raw"
    /\ \E o \in ModifyOutcomes(sys) : priv' = CapabilityRaw(sys, ctl, priv, FALSE, o)
    /\ pc' = "getopt"
    /\ UNCHANGED <<ctl, exit_loop, rc, total_expires, ret, out, status, wire, peer,
                   attempts, sys>>

\* main: the options (-D, -I, -s), usage() and -V, and the check of socketfd
GetOpt ==
    /\ pc = "getopt"
    /\ \/ \E x \in {0, 2} : Proceed(x, "getopt") /\ ctl' = ctl
       \/ \E dad \in BOOLEAN, source \in BOOLEAN,
             name \in {NULL, "eth0", "eth1", "wlan0"} :
            /\ ctl' = [ctl EXCEPT !.dad = dad, !.source = source,
                                  !.device.name = name]
            /\ Proceed(IF ctl.socketfd < 0 THEN 2 ELSE NoExit, "find_device")
    /\ UNCHANGED <<exit_loop, rc, total_expires, ret, out, wire, peer, attempts,
                   sys, priv>>

\* main: find_device(&ctl) on some system, and the checks of its result
FindDevice ==
    /\ pc = "find_device"
    /\ \E ifs \in IfLists, f \in Faults :
        LET r == find_device(ctl, ifs, f, sys.sysfs)
        IN  /\ ctl' = [ctl EXCEPT !.device = r.device]
            /\ Proceed(device_checks(r), "resolve")
    /\ UNCHANGED <<exit_loop, rc, total_expires, ret, out, wire, peer, attempts,
                   sys, priv>>

\* main: the target and the source address are parsed or resolved
ResolveAddresses ==
    /\ pc = "resolve"
    /\ \E x \in {NoExit, 2} : Proceed(x, "probe")
    /\ UNCHANGED <<ctl, exit_loop, rc, total_expires, ret, out, wire, peer,
                   attempts, sys, priv>>

\* main: the UDP socket that finds the source address is opened, unless
\* DAD runs without -s
OpenProbeSocket ==
    /\ pc = "probe"
    /\ IF ~ctl.dad \/ ctl.source
       THEN \E x \in {NoExit, 2} :
               Proceed(x, IF ctl.device.name # NULL THEN "enable_bind"
                                                    ELSE "probe_bind")
       ELSE Proceed(NoExit, "bind")
    /\ UNCHANGED <<ctl, exit_loop, rc, total_expires, ret, out, wire, peer,
                   attempts, sys, priv>>

\* main: enable_capability_raw(&ctl) before SO_BINDTODEVICE
EnableForBind ==
    /\ pc = "enable_bind"
    /\ \E o \in ModifyOutcomes(sys) : priv' = CapabilityRaw(sys, ctl, priv, TRUE, o)
    /\ pc' = "bindtodevice"
    /\ UNCHANGED <<ctl, exit_loop, rc, total_expires, ret, out, status, wire, peer,
                   attempts, sys>>

\* main: setsockopt(SO_BINDTODEVICE); its failure is only warned about
BindToDevice ==
    /\ pc = "bindtodevice"
    /\ pc' = "disable_bind"
    /\ UNCHANGED <<ctl, exit_loop, rc, total_expires, ret, out, status, wire, peer,
                   attempts, sys, priv>>

\* main: disable_capability_raw(&ctl) after SO_BINDTODEVICE
DisableAfterBind ==
    /\ pc = "disable_bind"
    /\ \E o \in ModifyOutcomes(sys) : priv' = CapabilityRaw(sys, ctl, priv, FALSE, o)
    /\ pc' = "probe_bind"
    /\ UNCHANGED <<ctl, exit_loop, rc, total_expires, ret, out, status, wire, peer,
                   attempts, sys>>

\* main: bind or connect and getsockname on the UDP socket
ProbeBind ==
    /\ pc = "probe_bind"
    /\ \E x \in {NoExit, 2} : Proceed(x, "bind")
    /\ UNCHANGED <<ctl, exit_loop, rc, total_expires, ret, out, wire, peer,
                   attempts, sys, priv>>

\* main: the raw socket is bound to the device; getsockname gives me, whose
\* hardware address may be empty
BindRawSocket ==
    /\ pc = "bind"
    /\ \/ /\ \E x \in {2, IF ctl.dad THEN 0 ELSE 2} : Proceed(x, "bind")
          /\ ctl' = ctl
       \/ /\ ctl' = [ctl EXCEPT !.socket_bound = TRUE]
          /\ Proceed(NoExit, "announce")
    /\ UNCHANGED <<exit_loop, rc, total_expires, ret, out, wire, peer, attempts,
                   sys, priv>>

\* main: he = me, set_device_broadcast, the banner, and the check that a
\* source address is known outside DAD mode
Announce ==
    /\ pc = "announce"
    /\ \/ ~ctl.source /\ ~ctl.dad /\ Proceed(2, "announce")
       \/ Proceed(NoExit, "drop_capabilities")
    /\ UNCHANGED <<ctl, exit_loop, rc, total_expires, ret, out, wire, peer,
                   attempts, sys, priv>>

\* main: drop_capabilities()
DropCapabilities ==
    /\ pc = "drop_capabilities"
    /\ \E o \in DropOutcomes(sys) :
        LET r == drop_capabilities(sys, priv, o)
        IN  /\ priv' = [r.priv EXCEPT !.drops = @ + 1,
                                      !.failed = IF r.exit # NoExit THEN TRUE ELSE @]
            /\ Proceed(r.exit, "event_loop")
    /\ UNCHANGED <<ctl, exit_loop, rc, total_expires, ret, out, wire, peer,
                   attempts, sys>>

\* event_loop: its setup fails and it returns 1, or the first probe is sent
EnterEventLoop ==
    /\ pc = "event_loop"
    /\ \/ Proceed(1, "event_loop") /\ attempts' = attempts
       \/ Proceed(NoExit, "looping") /\ attempts' = attempts + 1
    /\ UNCHANGED <<ctl, exit_loop, rc, total_expires, ret, out, wire, peer, sys,
                   priv>>

\* event_loop returns and main exits with its status
LeaveEventLoop ==
    /\ pc = "looping"
    /\ \E x \in 0..3 : Proceed(x, "looping")
    /\ UNCHANGED <<ctl, exit_loop, rc, total_expires, ret, out, wire, peer,
                   attempts, sys, priv>>

StartupNext ==
    \/ LimitCapabilities
    \/ EnableForSocket
    \/ OpenRawSocket
    \/ DisableAfterSocket
    \/ GetOpt
    \/ FindDevice
    \/ ResolveAddresses
    \/ OpenProbeSocket
    \/ EnableForBind
    \/ BindToDevice
    \/ DisableAfterBind
    \/ ProbeBind
    \/ BindRawSocket
    \/ Announce
    \/ DropCapabilities
    \/ EnterEventLoop
    \/ LeaveEventLoop

SpecStartup == StartupInit /\ [][StartupNext]_vars

ChainOrder == <<"ifaddrs", "sysfs", "ioctl">>

C14_FallbackChain ==
    /\ pc = "find_device" =>
         \A ifs \in IfLists, f \in Faults :
            LET r == find_device(ctl, ifs, f, sys.sysfs)
                n == Len(r.tried)
            IN  /\ n \in 1..3
                /\ \A i \in 1..n : r.tried[i].by = ChainOrder[i]
                /\ \A i \in 1..(n - 1) : r.tried[i].rc < 0
                /\ r.rc = r.tried[n].rc
                /\ (n < 3 /\ r.exit = NoExit) => r.rc >= 0
                /\ (r.exit = NoExit /\ r.rc < 0) =>
                       n = 3 /\ device_checks(r) = 2
    /\ pc \in {"limit_capabilities", "enable_raw", "socket", "disable_raw",
               "getopt", "find_device"} => attempts = 0
    /\ (pc = "exited" /\ ctl.device.ifindex = 0) => attempts = 0

\* a system where getifaddrs fails, the build has no sysfs and the ioctl
\* socket cannot be opened: all three strategies return negative
C14_Witness ==
    /\ pc = "find_device" /\ ~sys.sysfs /\ attempts = 0
    /\ \E ifs \in IfLists, f \in Faults :
          LET r == find_device(ctl, ifs, f, sys.sysfs)
          IN  /\ Len(ifs) = 2
              /\ r.exit = NoExit /\ r.rc < 0
              /\ \A i \in 1..3 : r.tried[i].rc < 0
              /\ device_checks(r) = 2


(***************************************************************************)
(* C15.  Uniqueness in the three strategies.  A strategy sets the device   *)
(* index only if exactly one interface passes its filters; with no name    *)
(* hint and two or more interfaces passing, it reports not found, the      *)
(* index stays 0 and main exits with status 2 before any probe, whatever   *)
(* the flags of the interfaces that passed.  The sysfs strategy stops      *)
(* counting once the interface it recorded is running.                     *)
(***************************************************************************)
\* the interfaces of ifs that pass the filters of the strategy by: the name
\* hint, check_ifflags, and the address checks of the strategy
Survivors(c, ifs, by) ==
    { i \in 1..Len(ifs) :
        /\ c.device.name # NULL => ifs[i].name = c.device.name
        /\ check_ifflags(c, ifs[i].flags) = [ret |-> 0, exit |-> NoExit]
        /\ by \in {"ifaddrs", "sysfs"} => ifs[i].halen # 0
        /\ by = "ifaddrs" => ifs[i].broadaddr }

\* one strategy called on its own
Strategy(by, c, ifs, f, use_sysfs) ==
    IF by = "ifaddrs" THEN find_device_by_ifaddrs(c, ifs, f)
    ELSE IF by = "sysfs" THEN find_device_by_sysfs(c, ifs, f, use_sysfs)
    ELSE find_device_by_ioctl(c, ifs, f)

C15_Uniqueness ==
    pc = "find_device" =>
        \A ifs \in IfLists, f \in Faults, by \in {"ifaddrs", "sysfs", "ioctl"} :
            LET s == Strategy(by, ctl, ifs, f, sys.sysfs)
                k == Cardinality(Survivors(ctl, ifs, by))
            IN  s.exit = NoExit =>
                    /\ s.device.ifindex # 0 => k = 1
                    /\ (ctl.device.name = NULL /\ k >= 2) =>
                           /\ s.rc # 0
                           /\ s.device.ifindex = 0
                           /\ s.rc > 0 => device_checks(s) = 2


(***************************************************************************)
(* C16.  The flag check with an interface name given.  If the named        *)
(* interface is down the process exits with status 2 in every mode; if it  *)
(* is up but loopback or without ARP it exits with status 0 in DAD mode    *)
(* and 2 otherwise; the exit happens inside the strategy that made the     *)
(* check, no later strategy runs and no probe is sent.  With no name given *)
(* an interface failing the check is skipped and no strategy exits.        *)
(***************************************************************************)
NoFaults == [ifaddrs |-> "ok", sysfs |-> "ok", ioctl |-> "ok"]

C16_FlagCheck ==
    /\ pc = "find_device" =>
         \A ifs \in IfLists, f \in Faults :
            LET r == find_device(ctl, ifs, f, sys.sysfs)
                named == Named(ifs, ctl.device.name)
            IN  IF ctl.device.name = NULL
                THEN /\ r.exit = NoExit
                     /\ \A i \in 1..Len(ifs) :
                           check_ifflags(ctl, ifs[i].flags).exit = NoExit
                ELSE \A i \in named :
                       LET ck == check_ifflags(ctl, ifs[i].flags)
                           down == "IFF_UP" \notin ifs[i].flags
                           noarp == ifs[i].flags \cap {"IFF_NOARP", "IFF_LOOPBACK"} # {}
                       IN  /\ down => ck.exit = 2 /\ device_checks(r) = 2
                           /\ (~down /\ noarp) =>
                                 /\ ck.exit = IF ctl.dad THEN 0 ELSE 2
                                 /\ ~ctl.dad => device_checks(r) = 2
                           /\ (~down /\ ~noarp) => ck.exit = NoExit /\ r.exit = NoExit
                           /\ r.exit # NoExit =>
                                 /\ r.exit = ck.exit
                                 /\ device_checks(r) = ck.exit
                           /\ (f = NoFaults /\ ck.exit # NoExit) =>
                                 r.exit = ck.exit /\ Len(r.tried) = 1
    /\ (pc = "exited" /\ ctl.device.name # NULL /\ ctl.device.ifindex = 0) =>
           attempts = 0

\* DAD mode, -I given: the process has exited with status 0 from the flag
\* check of the named interface, before a device was resolved or a probe sent
C16_Witness ==
    /\ pc = "exited" /\ status = 0 /\ ctl.dad /\ ctl.device.name # NULL
    /\ ctl.device.ifindex = 0 /\ attempts = 0


(***************************************************************************)
(* C24.  Privilege failures are fatal.  Once enable_capability_raw,        *)
(* disable_capability_raw or drop_capabilities has failed, the process     *)
(* never reaches the event loop and sends no probe.  main calls the first  *)
(* two without looking at what they return.                                *)
(***************************************************************************)
C24_PrivilegeFailuresFatal ==
    priv.failed =>
        /\ pc \notin {"event_loop", "looping"}
        /\ attempts = 0


(***************************************************************************)
(* recv_pack: the elapsed time it prints for an accepted frame, from       *)
(* ctl->last (the clock at the last full send) and ts (the clock at the    *)
(* reception).  The arithmetic is on long; / truncates towards zero.       *)
(***************************************************************************)
CDiv(a, b) == IF a >= 0 THEN a \div b ELSE -((-a) \div b)

\* the nanosecond parts explored: around 0, half a millisecond, a
\* millisecond and the end of the second
NsecValues == {0, 400, 1000, 499000, 500000, 1000000, 1499000, 999999000}

Timespecs == [tv_sec : 1..MaxSec, tv_nsec : NsecValues]

\* ctl->last before any probe went out
NoSend == [tv_sec |-> 0, tv_nsec |-> 0]

\* a is not later than b
NotAfter(a, b) ==
    a.tv_sec < b.tv_sec \/ (a.tv_sec = b.tv_sec /\ a.tv_nsec <= b.tv_nsec)

\* long usecs as first computed: the elapsed time in microseconds
Elapsed(last, ts) ==
    (ts.tv_sec - last.tv_sec) * 1000000 +
        CDiv(ts.tv_nsec - last.tv_nsec + 500, 1000)

\* what is printed: " %ld.%03ldms" with msecs and usecs, or " UNSOLICITED?"
elapsed_report(last, ts) ==
    IF last.tv_sec # 0
    THEN LET usecs == Elapsed(last, ts)
             msecs == CDiv(usecs + 500, 1000)
         IN  [unsolicited |-> FALSE,
              msecs |-> msecs,
              usecs |-> usecs - (msecs * 1000 - 500)]
    ELSE [unsolicited |-> TRUE, msecs |-> 0, usecs |-> 0]

\* nothing printed yet
NoReport == [unsolicited |-> FALSE, msecs |-> -1, usecs |-> -1]

ElapsedInit ==
    /\ ctl \in [last : Timespecs \cup {NoSend}]
    /\ pc = "report"
    /\ out = NoReport
    /\ exit_loop = FALSE
    /\ rc = 0
    /\ total_expires = 1
    /\ ret = NoRet
    /\ status = NoStatus
    /\ wire = NoFrame
    /\ peer = NoPeer
    /\ attempts = 0
    /\ sys = NoSys
    /\ priv = NoPriv

\* recv_pack prints the report of a frame received at ts
PrintElapsed ==
    /\ pc = "report"
    /\ \E ts \in Timespecs :
        /\ NotAfter(ctl.last, ts)
        /\ out' = elapsed_report(ctl.last, ts)
    /\ pc' = "reported"
    /\ UNCHANGED <<ctl, exit_loop, rc, total_expires, ret, status, wire, peer,
                   attempts, sys, priv>>

\* send_pack: a later full send sets ctl->last
SendAgain ==
    /\ pc = "reported"
    /\ \E now \in Timespecs :
        /\ NotAfter(ctl.last, now)
        /\ ctl' = [ctl EXCEPT !.last = now]
    /\ pc' = "report"
    /\ UNCHANGED <<exit_loop, rc, total_expires, ret, out, status, wire, peer,
                   attempts, sys, priv>>

ElapsedNext == PrintElapsed \/ SendAgain

SpecElapsed == ElapsedInit /\ [][ElapsedNext]_vars

(***************************************************************************)
(* C25.  The elapsed-time report.  For a reception u >= 0 microseconds     *)
(* after the last probe, the printed msecs and usecs satisfy               *)
(* 0 <= usecs <= 999 and msecs * 1000 + usecs = u.  The code rounds msecs  *)
(* to the nearest millisecond and then adds 500 to the remainder, so the   *)
(* two numbers add up to u + 500.                                          *)
(***************************************************************************)
C25_ElapsedReport ==
    (pc = "report" /\ ctl.last.tv_sec # 0) =>
        \A ts \in Timespecs :
            (NotAfter(ctl.last, ts) /\ Elapsed(ctl.last, ts) >= 0) =>
                LET r == elapsed_report(ctl.last, ts)
                IN  /\ 0 <= r.usecs /\ r.usecs <= 999
                    /\ r.msecs * 1000 + r.usecs = Elapsed(ctl.last, ts)

====
